---------------------------- MODULE Spec2Model ----------------------------
(***************************************************************************)
(* Model of the Analog plugin patcher of the library generator             *)
(* (packages/generator/src/generators/library/utils/vite-config.ts).       *)
(*                                                                         *)
(* A text is a sequence of elements.  Every punctuation or whitespace      *)
(* character is one element; an identifier word (analog, liveReload, ...)  *)
(* or a directory path is one element: the code never cuts inside one and  *)
(* none holds a character the code tests for.  Positions are the 0-based   *)
(* indices of the JavaScript code.                                         *)
(***************************************************************************)
EXTENDS Integers, Sequences, FiniteSets, TLC

VARIABLES file, prev, libSrcRoot, addPages, addApi, runs, thrown,
          tree, projectType, proxy, guard

vars == <<file, prev, libSrcRoot, addPages, addApi, runs, thrown,
          tree, projectType, proxy, guard>>

\* the workspace tree around the text, the tRPC proxy and the role guard
others == <<tree, projectType, proxy, guard>>

\* a tree in which nothing but the text exists and nothing was written;
\* changes lists the paths of the calls of tree.write
EmptyTree ==
    [exists |-> {}, changes |-> <<>>,
     packages |-> [name |-> "app", dependencies |-> {},
                   devDependencies |-> {}],
     vite |-> <<>>]

\* a proxied client no method of which was called
IdleProxy ==
    [pc |-> "idle", method |-> "query",
     source |-> [kind |-> "value", data |-> "user"],
     handlerResult |-> FALSE, originalCalls |-> 0,
     handlerCalls |-> <<>>, events |-> <<>>, result |-> "none"]

\* a guard that was not asked
IdleGuard ==
    [pc |-> "idle", roles |-> {}, url |-> "/profile",
     authenticated |-> FALSE, hasRolesResult |-> FALSE,
     result |-> "none", isAuthenticatedCalls |-> 0, hasRolesCalls |-> <<>>,
     loginCalls |-> <<>>, navigations |-> <<>>]

\* the text is all there is
OnlyText ==
    /\ tree = EmptyTree
    /\ projectType = "application"
    /\ proxy = IdleProxy
    /\ guard = IdleGuard

(***************************************************************************)
(* JavaScript string primitives                                            *)
(***************************************************************************)

\* the element standing for the backtick character (a TLA+ string cannot hold it)
Backtick == "<backtick>"

\* the three string delimiters: ' " and the backtick
IsQuote(c) == c \in {"'", "\"", Backtick}

\* code[i]: the element at 0-based index i, undefined outside the string
At(s, i) == IF i >= 0 /\ i < Len(s) THEN s[i + 1] ELSE "undefined"

\* String.prototype.substring(a, b): both indices are clamped to the text
\* and swapped if the first is the larger
Substring(s, a, b) ==
    LET Clamp(n) == IF n < 0 THEN 0 ELSE IF n > Len(s) THEN Len(s) ELSE n
        lo == IF Clamp(a) <= Clamp(b) THEN Clamp(a) ELSE Clamp(b)
        hi == IF Clamp(a) <= Clamp(b) THEN Clamp(b) ELSE Clamp(a)
    IN  SubSeq(s, lo + 1, hi)

\* a loop over the indices lo .. hi - 1 in order: Step is one pass of the
\* loop's body on the loop's variables; the range is halved and the first
\* half is folded before the second
RECURSIVE FoldRange(_, _, _, _)
FoldRange(Step(_, _), state, lo, hi) ==
    IF hi <= lo THEN state
    ELSE IF hi = lo + 1 THEN Step(state, lo)
    ELSE LET mid == (lo + hi) \div 2
         IN  CHOOSE result \in {FoldRange(Step, half, mid, hi) :
                                   half \in {FoldRange(Step, state, lo, mid)}} :
                 TRUE

\* \s of the regular expressions, and the characters trim() removes
IsSpace(c) == c \in {" ", "\n"}

\* the first index >= i whose element is not whitespace (Len(s) if none): \s*
RECURSIVE SkipSpaces(_, _)
SkipSpaces(s, i) ==
    IF i < Len(s) /\ IsSpace(At(s, i)) THEN SkipSpaces(s, i + 1) ELSE i

\* the last index + 1 of the text without its trailing whitespace
RECURSIVE TrimEnd(_, _)
TrimEnd(s, n) ==
    IF n > 0 /\ IsSpace(At(s, n - 1)) THEN TrimEnd(s, n - 1) ELSE n

\* String.prototype.trim()
Trim(s) ==
    LET a == SkipSpaces(s, 0)
    IN  IF a >= Len(s) THEN <<>> ELSE Substring(s, a, TrimEnd(s, Len(s)))

\* .replace(/\s+/g, ''): every whitespace character removed
RemoveWhitespace(s) == SelectSeq(s, LAMBDA c : ~IsSpace(c))

StartsWith(s, c) == Len(s) > 0 /\ s[1] = c
EndsWith(s, c) == Len(s) > 0 /\ s[Len(s)] = c

\* /key\s*:/.test(s)
HasKey(s, key) ==
    \E i \in 0..(Len(s) - 1) :
        At(s, i) = key /\ At(s, SkipSpaces(s, i + 1)) = ":"

(***************************************************************************)
(* removeComments                                                          *)
(***************************************************************************)

\* the inner while loop that reads a string literal; returns [i, result].
\* A pass is made at the index i stands at; closed is the break
ReadString(code, i, result, stringDelimiter) ==
    LET Step(st, k) ==
            IF st.closed \/ k # st.i THEN st
            ELSE IF At(code, k) = "\\"
                 THEN [i |-> k + 2,
                       result |-> st.result \o <<At(code, k), At(code, k + 1)>>,
                       closed |-> FALSE]
            ELSE IF At(code, k) = stringDelimiter
                 THEN [i |-> k + 1, result |-> Append(st.result, At(code, k)),
                       closed |-> TRUE]
            ELSE [i |-> k + 1, result |-> Append(st.result, At(code, k)),
                  closed |-> FALSE]
        end == FoldRange(Step, [i |-> i, result |-> result, closed |-> FALSE],
                         i, Len(code))
    IN  [i |-> end.i, result |-> end.result]

\* the inner while loop of a line comment: the index of the newline or the end
SkipLineComment(code, i) ==
    LET ends == {j \in i..Len(code) : j = Len(code) \/ At(code, j) = "\n"}
    IN  IF i >= Len(code) THEN i
        ELSE CHOOSE j \in ends : \A g \in ends : j <= g

\* the inner while loop of a block comment, entered after i += 2
SkipBlockComment(code, i) ==
    LET hits == {j \in i..(Len(code) - 2) :
                    At(code, j) = "*" /\ At(code, j + 1) = "/"}
    IN  IF hits # {} THEN (CHOOSE j \in hits : \A g \in hits : j <= g) + 2
        ELSE IF i < Len(code) - 1 THEN Len(code) - 1
        ELSE i

\* the outer while loop of removeComments: a pass is made at the index i
\* stands at
RemoveCommentsLoop(code, i, result) ==
    LET Step(st, k) ==
            IF k # st.i THEN st
            ELSE IF IsQuote(At(code, k))
                 THEN ReadString(code, k + 1, Append(st.result, At(code, k)),
                                 At(code, k))
            ELSE IF At(code, k) = "/" /\ At(code, k + 1) = "/"
                 THEN LET j == SkipLineComment(code, k)
                      IN  IF j < Len(code) /\ At(code, j) = "\n"
                          THEN [i |-> j + 1, result |-> Append(st.result, "\n")]
                          ELSE [i |-> j, result |-> st.result]
            ELSE IF At(code, k) = "/" /\ At(code, k + 1) = "*"
                 THEN [i |-> SkipBlockComment(code, k + 2), result |-> st.result]
            ELSE [i |-> k + 1, result |-> Append(st.result, At(code, k))]
    IN  FoldRange(Step, [i |-> i, result |-> result], i, Len(code)).result

removeComments(code) == RemoveCommentsLoop(code, 0, <<>>)

(***************************************************************************)
(* updateViteConfig                                                        *)
(***************************************************************************)

\* options.addPages !== false, options.addApi !== false
shouldAdd(option) == option # "false"

\* path.join(libSrcRoot, 'pages') with forward slashes
pagesDir(root) == root \o "/pages"

\* path.join(libSrcRoot, 'backend', 'api') with forward slashes
apiDir(root) == root \o "/backend/api"

\* `'${pagesDir}'`
pagesDirFormatted(root) == <<"'", pagesDir(root), "'">>

\* `'${apiDir}'`
apiDirFormatted(root) == <<"'", apiDir(root), "'">>

\* whether /analog\s*\(/ matches at index i
AnalogMatchesAt(content, i) ==
    At(content, i) = "analog" /\ At(content, SkipSpaces(content, i + 1)) = "("

\* analogCallRegex as /analog\s*\(?/: the parenthesis left optional
analogCallRegexOptionalParenthesis(content) ==
    LET hits == {i \in 0..(Len(content) - 1) : At(content, i) = "analog"}
    IN  IF hits = {} THEN [found |-> FALSE, index |-> -1, end |-> -1]
        ELSE LET i == CHOOSE h \in hits : \A g \in hits : h <= g
                 j == SkipSpaces(content, i + 1)
             IN  [found |-> TRUE, index |-> i,
                  end |-> IF At(content, j) = "(" THEN j + 1 ELSE j]

\* analogCallRegex.exec(content): the leftmost match, [found, index, end]
\* with end = index + match[0].length
analogCallRegex(content) ==
    LET hits == {i \in 0..(Len(content) - 1) : AnalogMatchesAt(content, i)}
    IN  IF hits = {} THEN [found |-> FALSE, index |-> -1, end |-> -1]
        ELSE LET i == CHOOSE h \in hits : \A g \in hits : h <= g
             IN  [found |-> TRUE, index |-> i,
                  end |-> SkipSpaces(content, i + 1) + 1]

\* the string-literal bookkeeping of one step of the parenthesis scan
HandleStringLiteral(char, prevChar, inString, stringChar) ==
    IF IsQuote(char) /\ prevChar # "\\"
    THEN IF ~inString THEN [inString |-> TRUE, stringChar |-> char]
         ELSE IF char = stringChar THEN [inString |-> FALSE, stringChar |-> ""]
         ELSE [inString |-> inString, stringChar |-> stringChar]
    ELSE [inString |-> inString, stringChar |-> stringChar]

\* the depth after one step of the parenthesis scan
CountParenthesis(char, inString, depth) ==
    IF inString THEN depth
    ELSE IF char = "(" THEN depth + 1
    ELSE IF char = ")" THEN depth - 1
    ELSE depth

\* the for loop that looks for the matching closing parenthesis;
\* returns the values of depth, endPos, inString and stringChar it ends with.
\* No pass is made once depth > 0 fails
ScanLoop(content, i, depth, endPos, inString, stringChar) ==
    LET Step(st, k) ==
            IF ~(st.depth > 0) THEN st
            ELSE LET char == At(content, k)
                     prevChar == IF k > 0 THEN At(content, k - 1) ELSE ""
                     str == HandleStringLiteral(char, prevChar,
                                                st.inString, st.stringChar)
                     d == CountParenthesis(char, str.inString, st.depth)
                 IN  [depth |-> d,
                      endPos |-> IF d = 0 THEN k ELSE st.endPos,
                      inString |-> str.inString,
                      stringChar |-> str.stringChar]
    IN  FoldRange(Step, [depth |-> depth, endPos |-> endPos,
                         inString |-> inString, stringChar |-> stringChar],
                  i, Len(content))

\* depth = 1, endPos = startPos, inString = false, stringChar = ''
FindClosingParenthesis(content, startPos) ==
    ScanLoop(content, startPos, 1, startPos, FALSE, "")

Spaces(n) == [k \in 1..n |-> " "]

\* items.join(sep)
RECURSIVE Join(_, _)
Join(items, sep) ==
    IF items = <<>> THEN <<>>
    ELSE IF Len(items) = 1 THEN items[1]
    ELSE items[1] \o sep \o Join(Tail(items), sep)

\* isEmpty: the argument without comments and whitespace is '' or '{}'
isEmpty(analogContent) ==
    LET contentWithoutCommentsAndWhitespace ==
            RemoveWhitespace(removeComments(analogContent))
    IN  \/ contentWithoutCommentsAndWhitespace = <<>>
        \/ contentWithoutCommentsAndWhitespace = <<"{", "}">>

\* the isEmpty branch: a fresh object literal
FreshOptions(root, pages, api) ==
    LET newOptions ==
            <<  <<"liveReload", ":", " ", "true">>  >>
            \o (IF shouldAdd(pages)
                THEN << <<"additionalPagesDirs", ":", " ", "[">>
                        \o pagesDirFormatted(root) \o <<"]">> >>
                ELSE <<>>)
            \o (IF shouldAdd(api)
                THEN << <<"additionalAPIDirs", ":", " ", "[">>
                        \o apiDirFormatted(root) \o <<"]">> >>
                ELSE <<>>)
    IN  <<"{", "\n">> \o Spaces(8)
        \o Join(newOptions, <<",", "\n">> \o Spaces(8))
        \o <<"\n">> \o Spaces(6) \o <<"}">>

\* the text without its outer braces, if it starts with { and ends with }
StripBraces(text) ==
    IF StartsWith(text, "{") /\ EndsWith(text, "}")
    THEN Substring(text, 1, Len(text) - 1)
    ELSE text

\* needsComma: the trimmed inner content is not empty and ends with no comma
needsComma(innerContent) ==
    LET trimmedInner == Trim(innerContent)
    IN  Len(trimmedInner) > 0 /\ ~EndsWith(trimmedInner, ",")

\* `{\n${innerContent}${needsComma ? ',' : ''}\n        ${option}\n      }`
AppendOption(innerContent, option) ==
    <<"{", "\n">> \o innerContent
    \o (IF needsComma(innerContent) THEN <<",">> ELSE <<>>)
    \o <<"\n">> \o Spaces(8) \o option \o <<"\n">> \o Spaces(6) \o <<"}">>

\* whether /key:\s*\[([^\]]*)\]/ matches at index i
ArrayMatchesAt(text, key, i) ==
    /\ At(text, i) = key
    /\ At(text, i + 1) = ":"
    /\ LET j == SkipSpaces(text, i + 2)
       IN  /\ At(text, j) = "["
           /\ \E k \in (j + 1)..(Len(text) - 1) : At(text, k) = "]"

\* the replacer callback: existing dirs, a separator if any, the new literal
AppendDir(key, dirs, literal) ==
    LET existingDirs ==
            IF Len(Trim(dirs)) > 0 THEN Trim(dirs) \o <<",", " ">> ELSE <<>>
    IN  <<key, ":", " ", "[">> \o existingDirs \o literal \o <<"]">>

\* text.replace(/key:\s*\[([^\]]*)\]/, replacer): the leftmost match only
AddToArray(text, key, literal) ==
    LET hits == {i \in 0..(Len(text) - 1) : ArrayMatchesAt(text, key, i)}
    IN  IF hits = {} THEN text
        ELSE LET i == CHOOSE h \in hits : \A g \in hits : h <= g
                 j == SkipSpaces(text, i + 2)
                 closers == {k \in (j + 1)..(Len(text) - 1) : At(text, k) = "]"}
                 k == CHOOSE c \in closers : \A g \in closers : c <= g
             IN  Substring(text, 0, i)
                 \o AppendDir(key, Substring(text, j + 1, k), literal)
                 \o Substring(text, k + 1, Len(text))

\* text.replace(/\}\s*$/, replacement)
ReplaceClosingBrace(text, replacement) ==
    LET hits == {i \in 0..(Len(text) - 1) :
                    At(text, i) = "}" /\ SkipSpaces(text, i + 1) = Len(text)}
    IN  IF hits = {} THEN text
        ELSE LET i == CHOOSE h \in hits : \A g \in hits : h <= g
             IN  Substring(text, 0, i) \o replacement

\* EnsureLiveReload without the test for an existing liveReload key
EnsureLiveReloadWithoutTest(analogContent, innerContent) ==
    LET n == AppendOption(innerContent, <<"liveReload", ":", " ", "true">>)
    IN  [newAnalogContent |-> n, innerContent |-> Substring(n, 1, Len(n) - 1)]

\* lines 224-230: liveReload is added if not present; [newAnalogContent,
\* innerContent] after the step
EnsureLiveReload(analogContent, innerContent) ==
    IF ~HasKey(innerContent, "liveReload")
    THEN LET n == AppendOption(innerContent,
                               <<"liveReload", ":", " ", "true">>)
         IN  [newAnalogContent |-> n,
              innerContent |-> Substring(n, 1, Len(n) - 1)]
    ELSE [newAnalogContent |-> analogContent, innerContent |-> innerContent]

\* lines 232-246: the pages directory; hasPagesDir was tested on the
\* argument's inner content before liveReload was added
AddPagesDir(analogContent, newAnalogContent, innerContent, hasPagesDir, root, pages) ==
    IF shouldAdd(pages) /\ hasPagesDir
    THEN AddToArray(analogContent, "additionalPagesDirs",
                    pagesDirFormatted(root))
    ELSE IF shouldAdd(pages) /\ ~hasPagesDir
    THEN AppendOption(innerContent,
                      <<"additionalPagesDirs", ":", " ", "[">>
                      \o pagesDirFormatted(root) \o <<"]">>)
    ELSE newAnalogContent

\* lines 253-269: the API directory
AddApiDir(newAnalogContent, innerContent, hasApiDir, root, api) ==
    IF shouldAdd(api) /\ hasApiDir
    THEN AddToArray(newAnalogContent, "additionalAPIDirs",
                    apiDirFormatted(root))
    ELSE IF shouldAdd(api) /\ ~hasApiDir
    THEN LET option == <<"additionalAPIDirs", ":", " ", "[">>
                       \o apiDirFormatted(root) \o <<"]">>
         IN  IF StartsWith(newAnalogContent, "{")
             THEN ReplaceClosingBrace(newAnalogContent,
                      (IF needsComma(innerContent) THEN <<",">> ELSE <<>>)
                      \o <<"\n">> \o Spaces(8) \o option
                      \o <<"\n">> \o Spaces(6) \o <<"}">>)
             ELSE AppendOption(innerContent, option)
    ELSE newAnalogContent

\* lines 188-270: the new text of the argument
NewAnalogContent(analogContent, root, pages, api) ==
    IF isEmpty(analogContent) THEN FreshOptions(root, pages, api)
    ELSE LET innerContent == StripBraces(analogContent)
             hasPagesDir == HasKey(innerContent, "additionalPagesDirs")
             hasApiDir == HasKey(innerContent, "additionalAPIDirs")
             live == EnsureLiveReload(analogContent, innerContent)
             afterPages == AddPagesDir(analogContent, live.newAnalogContent,
                                       live.innerContent, hasPagesDir,
                                       root, pages)
         IN  AddApiDir(afterPages, StripBraces(afterPages), hasApiDir,
                       root, api)

\* updateViteConfigThrows without the return for a match that is null
updateViteConfigThrowsWithoutReturn(content) ==
    ~analogCallRegex(content).found

\* whether a call on a text throws.  The text and what is cut from it are
\* strings, and a character read outside a string (code[i + 1], line 23) is
\* undefined, which is compared or concatenated and raises nothing; the one
\* value that can be null is analogMatch, whose index and [0] are read at
\* line 149, behind the return of lines 144-147
updateViteConfigThrows(content) ==
    LET analogMatch == analogCallRegex(content)
    IN  IF ~analogMatch.found THEN FALSE
        ELSE ~analogMatch.found

\* updateViteConfig with after taken from behind the closing parenthesis
updateViteConfigAfterParenthesis(content, root, pages, api) ==
    LET analogMatch == analogCallRegex(content)
    IN  IF ~analogMatch.found THEN content
        ELSE LET startPos == analogMatch.end
                 scan == FindClosingParenthesis(content, startPos)
             IN  IF scan.depth # 0 THEN content
                 ELSE Substring(content, 0, startPos)
                      \o NewAnalogContent(
                             Trim(Substring(content, startPos, scan.endPos)),
                             root, pages, api)
                      \o Substring(content, scan.endPos + 1, Len(content))

\* updateViteConfig without the return for a depth that is not 0
updateViteConfigWithoutDepthCheck(content, root, pages, api) ==
    LET analogMatch == analogCallRegex(content)
    IN  IF ~analogMatch.found THEN content
        ELSE LET startPos == analogMatch.end
                 scan == FindClosingParenthesis(content, startPos)
                 analogContent ==
                     Trim(Substring(content, startPos, scan.endPos))
             IN  Substring(content, 0, startPos)
                 \o NewAnalogContent(analogContent, root, pages, api)
                 \o Substring(content, scan.endPos, Len(content))

updateViteConfig(content, root, pages, api) ==
    LET analogMatch == analogCallRegex(content)
    IN  IF ~analogMatch.found THEN content
        ELSE LET startPos == analogMatch.end
                 scan == FindClosingParenthesis(content, startPos)
             IN  IF scan.depth # 0 THEN content
                 ELSE LET analogContent ==
                              Trim(Substring(content, startPos, scan.endPos))
                          before == Substring(content, 0, startPos)
                          after == Substring(content, scan.endPos, Len(content))
                      IN  before
                          \o NewAnalogContent(analogContent, root, pages, api)
                          \o after

(***************************************************************************)
(* The inputs: the vite.config text the generator is run on                *)
(***************************************************************************)

\* the longest body of a scanned argument
MaxScanLen == 3

\* the most properties of a generated argument object
MaxProps == 2

\* the most runs of the generator on one file
MaxRuns == 2

\* the longest text around a marker
MaxMarkerLen == 2

Roots == {"libs/a/src", "libs/b/src"}

\* all texts over an alphabet, up to a length
BoundedSeq(S, n) == UNION {[1..k -> S] : k \in 0..n}

\* the characters the parenthesis scan and the comment scanner react to
ScanAlphabet == {"(", ")", "'", "\\", "/", "*", "\n"}

\* analog( followed by any short text and, or not, a closing parenthesis
ScanInputs ==
    {<<"analog", "(">> \o body \o close :
        body \in BoundedSeq(ScanAlphabet, MaxScanLen),
        close \in {<<>>, <<")">>}}

\* short texts in which the marker may stand in code, in a comment or in a
\* string, or not at all
MarkerAlphabet == {"analog", "(", ")", "/", "'"}

MarkerInputs ==
    {pre \o post :
        pre \in BoundedSeq(MarkerAlphabet, MaxMarkerLen),
        post \in {<<>>, <<"analog", "(", ")">>, <<"analog", " ", "(", ")">>}}

\* the properties an argument object is put together from
Prop(key, value) == <<key, ":", " ">> \o value

Props ==
    {Prop("liveReload", <<"true">>),
     Prop("liveReload", <<"false">>),
     Prop("x", <<"1">>),
     Prop("additionalPagesDirs", <<"[", "]">>),
     Prop("additionalPagesDirs", <<"[", "'", "a", "'", "]">>),
     Prop("additionalPagesDirs", <<"[", "'", "libs/a/src/pages", "'", "]">>),
     <<"additionalPagesDirs", " ", ":", " ", "[", "'", "a", "'", "]">>,
     Prop("additionalAPIDirs", <<"[", "'", "b", "'", "]">>)}

\* sequences of different properties
PropLists ==
    {l \in BoundedSeq(Props, MaxProps) :
        \A i, j \in 1..Len(l) : i # j => l[i] # l[j]}

ObjectInputs ==
    {<<"analog", "(", "{", " ">> \o Join(l, <<",", " ">>) \o tail :
        l \in PropLists,
        tail \in {<<" ", "}", ")">>, <<",", " ", "}", ")">>}}

\* calls whose argument is empty or holds only whitespace and comments
EmptyArguments ==
    {<<>>, <<" ">>, <<"{", "}">>, <<"{", " ", "}">>,
     <<"/", "*", " ", "*", "/">>,
     <<"/", "*", "x", "*", "/", "\n">>,
     <<"/", "/", "x", "\n">>,
     <<"/", "*", "don", "'", "t", "*", "/">>,
     <<"/", "/", "see", " ", "analog", "(", ")", "\n">>}

EmptyInputs ==
    {pre \o <<"analog", "(">> \o arg \o <<")">> \o post :
        pre \in {<<>>, <<"plugins", ":", " ", "[">>},
        arg \in EmptyArguments,
        post \in {<<>>, <<"]", ",", "\n">>}}

\* texts of the kind the generator meets
Fixtures ==
    {<<"analog", "(", "'", "http", ":", "/", "/", "a", ")", "b", "'", ")">>,
     <<"analog", "(", "'", "\\", "\\", "'", ",", " ", "'", "(", "'", ")">>,
     <<"analog", "(", "{", " ", "x", ":", " ", "'", "\\", "\\", "'", " ", "}", ")">>,
     <<"/", "/", " ", "analog", "(", ")", "\n", "analog", "(", "{", "x", ":",
       " ", "1", "}", ")">>,
     <<"analog", "(", "/", "*", " ", ")", " ", "*", "/", " ", "{", "}", ")">>,
     <<"analog", "(", "{", "x", ":", " ", "1", " ", "/", "/", " ", "c", "\n",
       "}", ")">>,
     <<"analog", "(", "{", "x", ":", " ", "f", "(", "1", ")", "}", ")", ",",
       "y", "(", ")">>,
     <<"analog", "(", "{", "liveReload", ":", " ", "true", ",", " ",
       "/", "*", " ", "c", " ", "*", "/", "}", ")">>,
     <<"analog", "(", "{", "x", ":", " ", "1", " ", "/", "/", " ", "c", ",",
       "\n", "}", ")">>}

\* the inputs run under every root, and those run under the first
RootInputs == EmptyInputs \cup MarkerInputs
OptionInputs == ObjectInputs \cup Fixtures

(***************************************************************************)
(* The generator run on a file, and run again                              *)
(***************************************************************************)

\* the options of a call: none given (the default {}), or the two booleans
\* the library generator passes
OptionPairs ==
    {<<"undefined", "undefined">>}
    \cup {<<p, a>> : p \in {"true", "false"}, a \in {"true", "false"}}

Init ==
    /\ \/ /\ file \in RootInputs
          /\ libSrcRoot \in Roots
          /\ \E o \in OptionPairs : addPages = o[1] /\ addApi = o[2]
       \/ /\ file \in OptionInputs
          /\ libSrcRoot = "libs/a/src"
          /\ \E o \in OptionPairs : addPages = o[1] /\ addApi = o[2]
       \/ /\ file \in ScanInputs
          /\ libSrcRoot = "libs/a/src"
          /\ addPages = "undefined"
          /\ addApi = "undefined"
    /\ prev = file
    /\ runs = 0
    /\ thrown = FALSE
    /\ OnlyText

\* the library generator's update of vite.config: a file read as the empty
\* text is skipped, any other is written back as updateViteConfig returns
\* it; nothing is written if the call throws
Run ==
    /\ runs < MaxRuns
    /\ prev' = file
    /\ IF file # <<>> /\ updateViteConfigThrows(file)
       THEN /\ thrown' = TRUE
            /\ file' = file
       ELSE /\ thrown' = thrown
            /\ file' = IF file = <<>> THEN file
                       ELSE updateViteConfig(file, libSrcRoot, addPages, addApi)
    /\ runs' = runs + 1
    /\ UNCHANGED <<libSrcRoot, addPages, addApi>>
    /\ UNCHANGED others

Next == Run

Spec == Init /\ [][Next]_vars

(***************************************************************************)
(* updateAppConfig of the init-auth generator: the text of app.config.ts   *)
(* is a sequence of elements as above; a module specifier is one element   *)
(* and no word of the texts is a part of another                           *)
(***************************************************************************)

\* s.includes(word)
Includes(s, word) == \E k \in 1..Len(s) : s[k] = word

\* s.includes(text) for a text of several elements
IncludesText(s, text) ==
    \E i \in 0..(Len(s) - Len(text)) : Substring(s, i, i + Len(text)) = text

\* s.indexOf(text)
IndexOf(s, text) ==
    LET hits == {i \in 0..(Len(s) - Len(text)) :
                    Substring(s, i, i + Len(text)) = text}
    IN  IF hits = {} THEN -1 ELSE CHOOSE h \in hits : \A g \in hits : h <= g

\* the text with the elements from index a to index b - 1 replaced
ReplaceSpan(s, a, b, replacement) ==
    Substring(s, 0, a) \o replacement \o Substring(s, b, Len(s))

\* the smallest element of a set of indices, -1 if it is empty
First(indices) ==
    IF indices = {} THEN -1
    ELSE CHOOSE h \in indices : \A g \in indices : h <= g

\* \w+ : an identifier
IsWord(c) ==
    c \notin {" ", "\n", "'", "\"", "(", ")", "[", "]", "{", "}", ",", ";",
              ":", "=", ".", "/", "*", "undefined"}
             \cup {"@angular/core", "@angular/common/http",
                   "@analogjs/router", "./routes",
                   "@analog-tools/auth/angular"}

AuthModule == "@analog-tools/auth/angular"

\* `import { authInterceptor, provideAuthClient } from
\* '@analog-tools/auth/angular';\n`
authImport ==
    <<"import", " ", "{", " ", "authInterceptor", ",", " ",
      "provideAuthClient", " ", "}", " ", "from", " ", "'", AuthModule, "'",
      ";", "\n">>

\* where one import\s+{[^}]+}\s+from\s+['"][^'"]+['"];?\s*\n that starts at
\* index i ends, -1 if none starts there
ImportEnd(s, i) ==
    LET open == SkipSpaces(s, i + 1)
        close == First({k \in (open + 1)..(Len(s) - 1) : At(s, k) = "}"})
        from == SkipSpaces(s, close + 1)
        quote == SkipSpaces(s, from + 1)
        unquote == First({k \in (quote + 1)..(Len(s) - 1) :
                             At(s, k) \in {"'", "\""}})
        rest == IF At(s, unquote + 1) = ";" THEN unquote + 2 ELSE unquote + 1
        newlines == {k \in rest..(SkipSpaces(s, rest) - 1) : At(s, k) = "\n"}
    IN  IF /\ At(s, i) = "import"
           /\ open > i + 1
           /\ At(s, open) = "{"
           /\ close > open + 1
           /\ from > close + 1
           /\ At(s, from) = "from"
           /\ quote > from + 1
           /\ At(s, quote) \in {"'", "\""}
           /\ unquote > quote + 1
           /\ newlines # {}
        THEN 1 + CHOOSE n \in newlines : \A m \in newlines : m <= n
        ELSE -1

\* ( ... )+ : where the run of imports that starts at index i ends
RECURSIVE ImportsEnd(_, _)
ImportsEnd(s, i) ==
    IF ImportEnd(s, i) = -1 THEN i ELSE ImportsEnd(s, ImportEnd(s, i))

\* content.match(importRegex): the leftmost match, [found, index, end]
importRegex(content) ==
    LET index == First({i \in 0..(Len(content) - 1) :
                           ImportEnd(content, i) # -1})
    IN  IF index = -1 THEN [found |-> FALSE, index |-> -1, end |-> -1]
        ELSE [found |-> TRUE, index |-> index,
              end |-> ImportsEnd(content, index)]

\* lines 132-144: the auth import is put behind the match, if there is one
AddAuthImport(content) ==
    LET lastImportMatch == importRegex(content)
        insertPosition == lastImportMatch.end
    IN  IF lastImportMatch.found
        THEN Substring(content, 0, insertPosition) \o authImport
             \o Substring(content, insertPosition, Len(content))
        ELSE content

\* whether /providers:\s*\[/ matches at index i
ProvidersOpenAt(content, i) ==
    /\ At(content, i) = "providers"
    /\ At(content, i + 1) = ":"
    /\ At(content, SkipSpaces(content, i + 2)) = "["

\* content.match(/providers:\s*\[([\s\S]*?)\]/): [found, index, open, close],
\* the indices of the key and of the two brackets
providersRegex(content) ==
    LET index == First({i \in 0..(Len(content) - 1) :
                           /\ ProvidersOpenAt(content, i)
                           /\ \E k \in (SkipSpaces(content, i + 2) + 1)
                                          ..(Len(content) - 1) :
                                  At(content, k) = "]"})
        open == SkipSpaces(content, index + 2)
    IN  IF index = -1
        THEN [found |-> FALSE, index |-> -1, open |-> -1, close |-> -1]
        ELSE [found |-> TRUE, index |-> index, open |-> open,
              close |-> First({k \in (open + 1)..(Len(content) - 1) :
                                  At(content, k) = "]"})]

\* where the call \w+\([^)]*\) that starts at index j ends (the index of its
\* closing parenthesis), -1 if none starts there
CallEnd(s, j) ==
    IF IsWord(At(s, j)) /\ At(s, j + 1) = "("
    THEN First({k \in (j + 2)..(Len(s) - 1) : At(s, k) = ")"})
    ELSE -1

\* whether /,\s*\n\s*(\w+\([^)]*\)|provide\w+\([^)]*\))\s*,?\s*$/ matches
\* at index i
LastProviderAt(s, i) ==
    LET call == SkipSpaces(s, i + 1)
        end == CallEnd(s, call)
        comma == SkipSpaces(s, end + 1)
    IN  /\ At(s, i) = ","
        /\ \E k \in (i + 1)..(call - 1) : At(s, k) = "\n"
        /\ end # -1
        /\ IF At(s, comma) = ","
           THEN SkipSpaces(s, comma + 1) = Len(s)
           ELSE comma = Len(s)

\* the replacement without its $1: the last provider is not written back
lastProviderRegexWithoutGroup(providersContent) ==
    LET index == First({i \in 0..(Len(providersContent) - 1) :
                           LastProviderAt(providersContent, i)})
    IN  IF index = -1 THEN providersContent
        ELSE Substring(providersContent, 0, index)
             \o <<",", "\n">> \o Spaces(4)
             \o <<"provideAuthClient", "(", ")", ",">>

\* providersContent.replace(lastProviderRegex,
\*                          `,\n    $1,\n    provideAuthClient(),`)
lastProviderRegex(providersContent) ==
    LET index == First({i \in 0..(Len(providersContent) - 1) :
                           LastProviderAt(providersContent, i)})
        call == SkipSpaces(providersContent, index + 1)
    IN  IF index = -1 THEN providersContent
        ELSE Substring(providersContent, 0, index)
             \o <<",", "\n">> \o Spaces(4)
             \o Substring(providersContent, call,
                          CallEnd(providersContent, call) + 1)
             \o <<",", "\n">> \o Spaces(4)
             \o <<"provideAuthClient", "(", ")", ",">>

\* lines 146-170: provideAuthClient() is added to the providers
AddProvideAuthClient(content, providersMatch) ==
    LET providersContent ==
            Substring(content, providersMatch.open + 1, providersMatch.close)
        updatedProviders == lastProviderRegex(providersContent)
        open == First({i \in 0..(Len(content) - 1) :
                          ProvidersOpenAt(content, i)})
    IN  IF Includes(providersContent, "provideAuthClient") THEN content
        ELSE IF updatedProviders = providersContent
        THEN ReplaceSpan(content, open, SkipSpaces(content, open + 2) + 1,
                         <<"providers", ":", " ", "[", "\n">> \o Spaces(4)
                         \o <<"provideAuthClient", "(", ")", ",">>)
        ELSE LET at == IndexOf(content, providersContent)
             IN  ReplaceSpan(content, at, at + Len(providersContent),
                             updatedProviders)

\* content.match(/withInterceptors\(\[([^\]]*)\]\)/): [found, index, close],
\* the indices of the name and of the closing bracket
interceptorsRegex(content) ==
    LET Close(i) == First({k \in (i + 3)..(Len(content) - 1) :
                              At(content, k) = "]"})
        index == First({i \in 0..(Len(content) - 1) :
                           /\ At(content, i) = "withInterceptors"
                           /\ At(content, i + 1) = "("
                           /\ At(content, i + 2) = "["
                           /\ Close(i) # -1
                           /\ At(content, Close(i) + 1) = ")"})
    IN  IF index = -1 THEN [found |-> FALSE, index |-> -1, close |-> -1]
        ELSE [found |-> TRUE, index |-> index, close |-> Close(index)]

\* lines 173-184: authInterceptor is added to the list of withInterceptors
ExtendInterceptors(content, interceptorsMatch) ==
    LET interceptorsContent ==
            Substring(content, interceptorsMatch.index + 3,
                      interceptorsMatch.close)
        updatedInterceptors ==
            IF Trim(interceptorsContent) # <<>>
            THEN Trim(interceptorsContent) \o <<",", " ", "authInterceptor">>
            ELSE <<"authInterceptor">>
    IN  IF Includes(interceptorsContent, "authInterceptor") THEN content
        ELSE ReplaceSpan(content, interceptorsMatch.index,
                         interceptorsMatch.close + 2,
                         <<"withInterceptors", "(", "[">>
                         \o updatedInterceptors \o <<"]", ")">>)

\* content.match(/provideHttpClient\(([\s\S]*?)\)/): [found, index, close],
\* the indices of the name and of the first closing parenthesis
httpClientRegex(content) ==
    LET index == First({i \in 0..(Len(content) - 1) :
                           /\ At(content, i) = "provideHttpClient"
                           /\ At(content, i + 1) = "("
                           /\ \E k \in (i + 2)..(Len(content) - 1) :
                                  At(content, k) = ")"})
    IN  IF index = -1 THEN [found |-> FALSE, index |-> -1, close |-> -1]
        ELSE [found |-> TRUE, index |-> index,
              close |-> First({k \in (index + 2)..(Len(content) - 1) :
                                  At(content, k) = ")"})]

\* whether from\s+['"]@angular\/common\/http['"] matches at index i
HttpModuleAt(s, i) ==
    LET quote == SkipSpaces(s, i + 1)
    IN  /\ At(s, i) = "from"
        /\ quote > i + 1
        /\ At(s, quote) \in {"'", "\""}
        /\ At(s, quote + 1) = "@angular/common/http"
        /\ At(s, quote + 2) \in {"'", "\""}

\* whether import\s+{([^}]+)}\s+from\s+['"]@angular\/common\/http['"]
\* matches at index i
HttpImportAt(s, i) ==
    LET open == SkipSpaces(s, i + 1)
        close == First({k \in (open + 1)..(Len(s) - 1) : At(s, k) = "}"})
        from == SkipSpaces(s, close + 1)
    IN  /\ At(s, i) = "import"
        /\ open > i + 1
        /\ At(s, open) = "{"
        /\ close > open + 1
        /\ from > close + 1
        /\ HttpModuleAt(s, from)

\* lines 196-210: the quotes of the module @angular/common/http become
\* single ones, and withInterceptors is added to its import
AddInterceptorsImport(content) ==
    LET from == First({i \in 0..(Len(content) - 1) : HttpModuleAt(content, i)})
        requoted ==
            IF from = -1 THEN content
            ELSE ReplaceSpan(content, from, SkipSpaces(content, from + 1) + 3,
                             <<"from", " ", "'", "@angular/common/http", "'">>)
        start == First({i \in 0..(Len(requoted) - 1) :
                           HttpImportAt(requoted, i)})
        brace == First({k \in start..(Len(requoted) - 1) :
                           At(requoted, k) = "}"})
    IN  IF start = -1 THEN requoted
        ELSE IF Includes(Substring(requoted, start, brace), "withInterceptors")
        THEN requoted
        ELSE ReplaceSpan(requoted, brace, brace + 1,
                         <<",", " ", "withInterceptors", "}">>)

\* lines 186-212: without a withInterceptors([...]), one is put into a
\* provideHttpClient( ) whose text holds withFetch()
AddInterceptorsCall(content, httpClientMatch) ==
    LET httpClientContent ==
            Substring(content, httpClientMatch.index + 2,
                      httpClientMatch.close)
        replaced ==
            ReplaceSpan(content, httpClientMatch.index,
                        httpClientMatch.close + 1,
                        <<"provideHttpClient", "(", "\n">> \o Spaces(6)
                        \o <<"withFetch", "(", ")", ",", "\n">> \o Spaces(6)
                        \o <<"withInterceptors", "(", "[", "authInterceptor",
                             "]", ")", "\n">> \o Spaces(4) \o <<")">>)
    IN  IF IncludesText(httpClientContent, <<"withFetch", "(", ")">>)
        THEN IF ~Includes(replaced, "withInterceptors")
             THEN AddInterceptorsImport(replaced)
             ELSE replaced
        ELSE content

\* lines 172-213: authInterceptor is added to the interceptors
AddAuthInterceptor(content) ==
    LET interceptorsMatch == interceptorsRegex(content)
        httpClientMatch == httpClientRegex(content)
    IN  IF interceptorsMatch.found
        THEN ExtendInterceptors(content, interceptorsMatch)
        ELSE IF httpClientMatch.found
        THEN AddInterceptorsCall(content, httpClientMatch)
        ELSE content

\* lines 126-130 and 216: app.config.ts is written unless its text holds
\* the auth module
appConfigWritten(content) == ~Includes(content, AuthModule)

\* updateAppConfig without the return for a text that holds the auth module
updateAppConfigWithoutAuthTest(content) ==
    LET imported == AddAuthImport(content)
        providersMatch == providersRegex(imported)
    IN  IF providersMatch.found
        THEN AddAuthInterceptor(AddProvideAuthClient(imported, providersMatch))
        ELSE imported

\* the text updateAppConfig leaves in an app.config.ts it finds: the text
\* as it was if it holds the auth module (nothing is written), else the
\* text it writes
updateAppConfig(content) ==
    LET hasAuthImport == Includes(content, AuthModule)
        imported == AddAuthImport(content)
        providersMatch == providersRegex(imported)
    IN  IF hasAuthImport THEN content
        ELSE IF providersMatch.found
        THEN AddAuthInterceptor(AddProvideAuthClient(imported, providersMatch))
        ELSE imported

(***************************************************************************)
(* The inputs: the app.config.ts the init-auth generator is run on         *)
(***************************************************************************)

\* the most imports of a generated app.config.ts
MaxImports == 2

\* the most interceptors of a generated withInterceptors list
MaxInterceptors == 2

\* sequences of different elements of a set, up to a length
DistinctSeq(S, n) ==
    {l \in BoundedSeq(S, n) : \A i, j \in 1..Len(l) : i # j => l[i] # l[j]}

\* import statements: named imports on one line and on several, with single
\* and double quotes, a default import, and the auth import itself
ImportLines ==
    {<<"import", " ", "{", " ", "ApplicationConfig", " ", "}", " ", "from",
       " ", "'", "@angular/core", "'", ";", "\n">>,
     <<"import", " ", "{", " ", "provideHttpClient", ",", " ", "withFetch",
       " ", "}", " ", "from", " ", "\"", "@angular/common/http", "\"", ";",
       "\n">>,
     <<"import", " ", "{", "\n", " ", " ", "provideFileRouter", ",", "\n",
       "}", " ", "from", " ", "'", "@analogjs/router", "'", ";", "\n">>,
     <<"import", " ", "appRoutes", " ", "from", " ", "'", "./routes", "'",
       ";", "\n">>,
     authImport}

ImportBlocks == {Join(l, <<>>) : l \in DistinctSeq(ImportLines, MaxImports)}

InterceptorNames ==
    {"requestContextInterceptor", "loggingInterceptor", "authInterceptor"}

\* the text of an interceptor list: on one line, or one interceptor a line
\* with a comma after each
InterceptorLists ==
    {Join([k \in 1..Len(l) |-> <<l[k]>>], <<",", " ">>) :
        l \in DistinctSeq(InterceptorNames, MaxInterceptors)}
    \cup {<<"\n">> \o Join([k \in 1..Len(l) |->
                               Spaces(8) \o <<l[k], ",", "\n">>], <<>>)
               \o Spaces(6) :
             l \in DistinctSeq(InterceptorNames, MaxInterceptors) \ {<<>>}}

\* the text between the brackets of the providers array
ProviderLists ==
    {<<>>,
     <<"provideFileRouter", "(", ")">>,
     <<"\n">> \o Spaces(4) \o <<"provideFileRouter", "(", ")", ",", "\n">>
       \o Spaces(4) \o <<"provideClientHydration", "(", ")", ",", "\n">>
       \o Spaces(2),
     <<"\n">> \o Spaces(4) \o <<"provideFileRouter", "(", ")", ",", "\n">>
       \o Spaces(4)
       \o <<"provideHttpClient", "(", "withFetch", "(", ")", ")", ",", "\n">>
       \o Spaces(2)}
    \cup {<<"\n">> \o Spaces(4)
          \o <<"provideHttpClient", "(", "withFetch", "(", ")", ",", " ",
               "withInterceptors", "(", "[">> \o list \o <<"]", ")", ")",
               ",", "\n">>
          \o Spaces(4) \o <<"provideClientHydration", "(", ")", ",", "\n">>
          \o Spaces(2) :
             list \in InterceptorLists}

\* what follows the imports: a configuration with a providers array, or
\* one without
AppConfigBodies ==
    {<<"export", " ", "const", " ", "appConfig", " ", "=", " ", "{", "\n">>
     \o Spaces(2) \o <<"providers", ":", " ", "[">> \o list
     \o <<"]", ",", "\n", "}", ";", "\n">> :
        list \in ProviderLists}
    \cup {<<"export", " ", "const", " ", "appConfig", " ", "=", " ", "{",
            "}", ";", "\n">>}

\* imports, a blank line or none, and the configuration
AppConfigInputs ==
    {imports \o blank \o body :
        imports \in ImportBlocks,
        blank \in {<<>>, <<"\n">>},
        body \in AppConfigBodies}

(***************************************************************************)
(* The init-auth generator run on an application, and run again            *)
(***************************************************************************)

\* the project has an app.config.ts (without one updateAppConfig returns at
\* line 119 and writes nothing); the variables of the library generator
\* keep their values
AppInit ==
    /\ file \in AppConfigInputs
    /\ prev = file
    /\ runs = 0
    /\ thrown = FALSE
    /\ tree = [EmptyTree EXCEPT !.exists = {"src/app/app.config.ts"}]
    /\ projectType = "application"
    /\ proxy = IdleProxy
    /\ guard = IdleGuard
    /\ libSrcRoot = "libs/a/src"
    /\ addPages = "undefined"
    /\ addApi = "undefined"

\* step 3 of initAuthGenerator: app.config.ts is read, and is written
\* unless it holds the auth module
RunInitAuth ==
    /\ runs < MaxRuns
    /\ prev' = file
    /\ file' = updateAppConfig(file)
    /\ tree' = [tree EXCEPT !.changes =
                    IF appConfigWritten(file)
                    THEN Append(@, "src/app/app.config.ts") ELSE @]
    /\ runs' = runs + 1
    /\ UNCHANGED <<libSrcRoot, addPages, addApi, thrown>>
    /\ UNCHANGED <<projectType, proxy, guard>>

AppNext == RunInitAuth

AppSpec == AppInit /\ [][AppNext]_vars

(***************************************************************************)
(* updateViteConfig of the init-auth generator: '@analog-tools/auth' in    *)
(* ssr.noExternal of vite.config.  A package name is one element; a name   *)
(* that goes on after it ('@analog-tools/auth-angular') is that element    *)
(* and one more                                                            *)
(***************************************************************************)

AuthPackage == "@analog-tools/auth"

\* "'@analog-tools/auth'" and '"@analog-tools/auth"'
AuthLiteral == <<"'", AuthPackage, "'">>
AuthLiteralDoubleQuotes == <<"\"", AuthPackage, "\"">>

\* the index of the [ of a match of /ssr:\s*{\s*noExternal:\s*\[/ that
\* starts at i, or -1
NoExternalOpenAt(content, i) ==
    IF At(content, i) = "ssr" /\ At(content, i + 1) = ":"
    THEN LET b == SkipSpaces(content, i + 2)
             k == SkipSpaces(content, b + 1)
             o == SkipSpaces(content, k + 2)
         IN  IF /\ At(content, b) = "{"
                /\ At(content, k) = "noExternal"
                /\ At(content, k + 1) = ":"
                /\ At(content, o) = "["
             THEN o ELSE -1
    ELSE -1

\* content.match(noExternalRegex): the leftmost match, the capture between
\* open and the first ] behind it
noExternalRegex(content) ==
    LET hits == {i \in 0..(Len(content) - 1) :
                    /\ NoExternalOpenAt(content, i) >= 0
                    /\ \E c \in (NoExternalOpenAt(content, i) + 1)..(Len(content) - 1) :
                           At(content, c) = "]"}
    IN  IF hits = {} THEN [found |-> FALSE, index |-> -1, open |-> -1, close |-> -1]
        ELSE LET i == First(hits)
                 o == NoExternalOpenAt(content, i)
             IN  [found |-> TRUE, index |-> i, open |-> o,
                  close |-> First({c \in (o + 1)..(Len(content) - 1) :
                                     At(content, c) = "]"})]

\* noExternalContent.split(',')
SplitAtComma(noExternalContent) ==
    LET Step(st, k) ==
            IF At(noExternalContent, k) = ","
            THEN [items |-> Append(st.items, st.item), item |-> <<>>]
            ELSE [items |-> st.items,
                  item |-> Append(st.item, At(noExternalContent, k))]
        end == FoldRange(Step, [items |-> <<>>, item |-> <<>>],
                         0, Len(noExternalContent))
    IN  Append(end.items, end.item)

\* .map((item) => item.trim()).filter((item) => item.length > 0)
TrimmedItems(pieces) ==
    LET trimmed == [k \in 1..Len(pieces) |-> Trim(pieces[k])]
    IN  SelectSeq(trimmed, LAMBDA item : Len(item) > 0)

\* `ssr: {\n      noExternal: [${itemsStr}]`
NoExternalText(itemsStr) ==
    <<"ssr", ":", " ", "{", "\n">> \o Spaces(6)
    \o <<"noExternal", ":", " ", "[">> \o itemsStr \o <<"]">>

\* lines 248-266: the items of the array and the new item, joined, in the
\* place of the match
AddNoExternal(content, match) ==
    LET noExternalContent == Substring(content, match.open + 1, match.close)
        items == Append(TrimmedItems(SplitAtComma(noExternalContent)),
                        AuthLiteral)
        itemsStr == Join(items, <<",", " ">>)
    IN  ReplaceSpan(content, match.index, match.close + 1,
                    NoExternalText(itemsStr))

\* the index of the first match of /word:\s*{/, or -1
SectionAt(content, word) ==
    LET hits == {i \in 0..(Len(content) - 1) :
                    /\ At(content, i) = word
                    /\ At(content, i + 1) = ":"
                    /\ At(content, SkipSpaces(content, i + 2)) = "{"}
    IN  IF hits = {} THEN -1 ELSE First(hits)

\* lines 267-286: no ssr.noExternal array; it is put into the ssr section,
\* or a new ssr section before the build section
CreateNoExternal(content) ==
    IF IncludesText(content, <<"ssr", ":">>)
    THEN LET i == SectionAt(content, "ssr")
         IN  IF i < 0 THEN content
             ELSE ReplaceSpan(content, i, SkipSpaces(content, i + 2) + 1,
                      <<"ssr", ":", " ", "{", "\n">> \o Spaces(6)
                      \o <<"noExternal", ":", " ", "[">> \o AuthLiteral
                      \o <<"]", ",">>)
    ELSE LET insertPos == SectionAt(content, "build")
             ssrConfig == <<"\n">> \o Spaces(4) \o <<"ssr", ":", " ", "{", "\n">>
                          \o Spaces(6) \o <<"noExternal", ":", " ", "[">>
                          \o AuthLiteral \o <<"]", ",", "\n">> \o Spaces(4)
                          \o <<"}", ",", "\n", "\n">> \o Spaces(4)
         IN  IF insertPos < 0 THEN content
             ELSE ReplaceSpan(content, insertPos, insertPos, ssrConfig)

\* lines 239-246: whether the array of a match lists the package
AlreadyListed(content, match) ==
    /\ match.found
    /\ LET noExternalContent == Substring(content, match.open + 1, match.close)
       IN  \/ IncludesText(noExternalContent, AuthLiteral)
           \/ IncludesText(noExternalContent, AuthLiteralDoubleQuotes)

\* updateViteConfig(tree, viteConfigPath) on a vite.config that exists:
\* whether the file is written, and its text afterwards
updateViteConfigNoExternal(content) ==
    LET match == noExternalRegex(content)
    IN  IF AlreadyListed(content, match)
        THEN [written |-> FALSE, content |-> content]
        ELSE [written |-> TRUE,
              content |-> IF match.found THEN AddNoExternal(content, match)
                          ELSE CreateNoExternal(content)]

(***************************************************************************)
(* The inputs: the vite.config the init-auth generator is run on           *)
(***************************************************************************)

\* the most entries of a noExternal array
MaxEntries == 2

\* entries in single and in double quotes, the package itself, a package
\* whose name starts with its name, and a regular expression
NoExternalEntries ==
    {<<"'", "@analogjs/**", "'">>,
     <<"\"", "rxjs", "\"">>,
     AuthLiteral,
     AuthLiteralDoubleQuotes,
     <<"'", AuthPackage, "-angular", "'">>,
     <<"/", "^@analog", "/">>}

EntryLists == DistinctSeq(NoExternalEntries, MaxEntries)

\* an entry on a line of its own, with the comma a formatter puts behind it
EntryLine(entry) == <<"\n">> \o Spaces(8) \o entry \o <<",">>

\* the contents of an array: on one line, one entry a line, and an entry
\* with a line comment behind it
NoExternalContents ==
    {Join(l, <<",", " ">>) : l \in EntryLists}
    \cup {Join([k \in 1..Len(l) |-> EntryLine(l[k])], <<>>)
             \o <<"\n">> \o Spaces(6) : l \in EntryLists \ {<<>>}}
    \cup {EntryLine(<<"'", "@analogjs/**", "'">>)
             \o <<" ", "/", "/", " ", "keep", "\n">> \o Spaces(6)}

\* the ssr section: with a noExternal array, without one, and none
SsrSections ==
    {<<"ssr", ":", " ", "{", " ", "noExternal", ":", " ", "[">> \o c
        \o <<"]", " ", "}", ",", "\n">> : c \in NoExternalContents}
    \cup {<<"ssr", ":", " ", "{", "\n">> \o Spaces(6)
             \o <<"noExternal", ":", " ", "[">> \o c
             \o <<"]", ",", "\n">> \o Spaces(4) \o <<"}", ",", "\n">> :
             c \in NoExternalContents}
    \cup {<<"ssr", ":", " ", "{", " ", "target", ":", " ",
             "'", "node", "'", " ", "}", ",", "\n">>,
           <<>>}

ViteAuthInputs ==
    {head \o ssr \o <<"}", ")", ";", "\n">> :
        head \in {<<"defineConfig", "(", "{", "\n">>,
                  <<"defineConfig", "(", "{", "\n", "build", ":", " ", "{",
                    "}", ",", "\n">>},
        ssr \in SsrSections}

NoExternalInit ==
    /\ file \in ViteAuthInputs
    /\ prev = file
    /\ runs = 0
    /\ thrown = FALSE
    /\ libSrcRoot = "libs/a/src"
    /\ addPages = "undefined"
    /\ addApi = "undefined"
    /\ tree = [EmptyTree EXCEPT !.exists = {"vite.config.ts"}]
    /\ projectType = "application"
    /\ proxy = IdleProxy
    /\ guard = IdleGuard

\* step 4 of initAuthGenerator on a vite.config.ts that exists
RunInitAuthVite ==
    /\ runs < MaxRuns
    /\ prev' = file
    /\ LET update == updateViteConfigNoExternal(file)
       IN  /\ file' = update.content
           /\ tree' = [tree EXCEPT !.changes =
                           IF update.written THEN Append(@, "vite.config.ts")
                           ELSE @]
    /\ runs' = runs + 1
    /\ UNCHANGED <<libSrcRoot, addPages, addApi, thrown>>
    /\ UNCHANGED <<projectType, proxy, guard>>

NoExternalNext == RunInitAuthVite

NoExternalSpec == NoExternalInit /\ [][NoExternalNext]_vars

(***************************************************************************)
(* initAuthGenerator: the whole generator on a project of the workspace    *)
(***************************************************************************)

\* lines 71-76
requiredPackages ==
    {"@analog-tools/auth", "@analog-tools/inject", "@analog-tools/logger",
     "@analog-tools/session"}

\* tree.write(path, ...): the file exists afterwards, and the write is
\* listed
treeWrite(t, path) ==
    [t EXCEPT !.exists = @ \cup {path}, !.changes = Append(@, path)]

\* lines 49-109: the required packages that neither dependencies nor
\* devDependencies name are added as dependencies to a package.json that
\* exists and is not the one of the analog-tools workspace
ensureAuthPackages(t) ==
    LET isAnalogToolsRepo ==
            t.packages.name \in {"analog-tools", "@analog-tools/root"}
        missingPackages ==
            {pkg \in requiredPackages :
                /\ pkg \notin t.packages.dependencies
                /\ pkg \notin t.packages.devDependencies}
    IN  IF "package.json" \notin t.exists THEN t
        ELSE IF isAnalogToolsRepo THEN t
        ELSE IF missingPackages = {} THEN t
        ELSE [treeWrite(t, "package.json") EXCEPT
                 !.packages.dependencies = @ \cup missingPackages]

\* lines 295-304: the first of the four names that exists, "null" if none
findViteConfigPath(t) ==
    LET possiblePaths == <<"vite.config.ts", "vite.config.mts",
                           "vite.config.js", "vite.config.mjs">>
        found == {k \in 1..Len(possiblePaths) : possiblePaths[k] \in t.exists}
    IN  IF found = {} THEN "null"
        ELSE possiblePaths[CHOOSE k \in found : \A j \in found : k <= j]

\* steps 0 to 4 of the generator on the tree and the text of app.config.ts:
\* the tree and the text they leave, nothing thrown
GeneratorSteps(t, content) ==
    LET step0 == ensureAuthPackages(t)
        step1 == treeWrite(step0, "src/auth.config.ts")
        step2 == treeWrite(step1, "src/server/middleware/auth.ts")
        hasAppConfig == "src/app/app.config.ts" \in step2.exists
        step3 == IF hasAppConfig /\ appConfigWritten(content)
                 THEN treeWrite(step2, "src/app/app.config.ts")
                 ELSE step2
        viteConfigPath == findViteConfigPath(step3)
        update == updateViteConfigNoExternal(step3.vite)
        step4 == IF viteConfigPath # "null" /\ update.written
                 THEN [treeWrite(step3, viteConfigPath) EXCEPT
                          !.vite = update.content]
                 ELSE step3
    IN  [thrown |-> FALSE, tree |-> step4,
         file |-> IF hasAppConfig THEN updateAppConfig(content) ELSE content]

\* the generator with the test of the project type made after step 0
initAuthGeneratorTestingLate(t, content, type) ==
    IF type # "application"
    THEN [thrown |-> TRUE, tree |-> ensureAuthPackages(t), file |-> content]
    ELSE GeneratorSteps(t, content)

\* lines 306-409: the generator throws for a project that is not an
\* application, and else makes its steps
initAuthGenerator(t, content, type) ==
    IF type # "application"
    THEN [thrown |-> TRUE, tree |-> t, file |-> content]
    ELSE GeneratorSteps(t, content)

\* the projectType of a project configuration
ProjectTypes == {"application", "library", "undefined"}

\* the files of the project that the generator looks for; of the vite
\* configurations a project has at most one
GeneratorTrees ==
    {base \cup viteConfig :
        base \in SUBSET {"package.json", "src/app/app.config.ts"},
        viteConfig \in {{}, {"vite.config.ts"}, {"vite.config.mts"}}}

\* package.json: the name of an application and of the analog-tools
\* workspace, with none, one and all of the required packages
GeneratorPackages ==
    {[name |-> name, dependencies |-> dependencies,
      devDependencies |-> devDependencies] :
        name \in {"app", "analog-tools"},
        dependencies \in {{}, {"@analog-tools/auth"}},
        devDependencies \in {{}, requiredPackages \ {"@analog-tools/auth"}}}

\* app.config.ts: with and without the auth import, with an empty providers
\* array and without providers
GeneratorAppConfigs ==
    {imports \o body :
        imports \in {<<>>, authImport,
                     <<"import", " ", "{", " ", "ApplicationConfig", " ", "}",
                       " ", "from", " ", "'", "@angular/core", "'", ";",
                       "\n">>},
        body \in {b \in AppConfigBodies :
                     /\ ~Includes(b, "provideFileRouter")
                     /\ ~Includes(b, "provideHttpClient")}}

\* vite.config.ts: with the package listed, with another entry, with an ssr
\* section without the array, and without an ssr section
GeneratorViteConfigs ==
    {<<"defineConfig", "(", "{", "\n", "build", ":", " ", "{", "}", ",",
       "\n">> \o ssr \o <<"}", ")", ";", "\n">> :
        ssr \in {<<"ssr", ":", " ", "{", " ", "noExternal", ":", " ", "[">>
                   \o c \o <<"]", " ", "}", ",", "\n">> :
                     c \in {AuthLiteral, <<"'", "@analogjs/**", "'">>}}
                \cup {<<"ssr", ":", " ", "{", " ", "target", ":", " ",
                        "'", "node", "'", " ", "}", ",", "\n">>,
                      <<>>}}

GeneratorInit ==
    /\ projectType \in ProjectTypes
    /\ \E exists \in GeneratorTrees, packages \in GeneratorPackages :
           /\ tree \in {[exists |-> exists, changes |-> <<>>,
                          packages |-> packages, vite |-> vite] :
                            vite \in IF findViteConfigPath([exists |-> exists])
                                        = "null"
                                     THEN {<<>>} ELSE GeneratorViteConfigs}
           /\ "package.json" \notin exists => packages = EmptyTree.packages
           /\ file \in IF "src/app/app.config.ts" \in exists
                        THEN GeneratorAppConfigs ELSE {<<>>}
    /\ prev = file
    /\ runs = 0
    /\ thrown = FALSE
    /\ libSrcRoot = "libs/a/src"
    /\ addPages = "undefined"
    /\ addApi = "undefined"
    /\ proxy = IdleProxy
    /\ guard = IdleGuard

\* a run of the generator on the project
RunInitAuthGenerator ==
    /\ runs < MaxRuns
    /\ prev' = file
    /\ \E run \in {initAuthGenerator(tree, file, projectType)} :
           /\ thrown' = run.thrown
           /\ tree' = run.tree
           /\ file' = run.file
    /\ runs' = runs + 1
    /\ UNCHANGED <<libSrcRoot, addPages, addApi, projectType, proxy, guard>>

GeneratorNext == RunInitAuthGenerator

GeneratorSpec == GeneratorInit /\ [][GeneratorNext]_vars

(***************************************************************************)
(* removeComments on its own: every short text over the characters the     *)
(* function reacts to                                                      *)
(***************************************************************************)

\* the longest text given to removeComments
MaxCommentLen == 4

\* the quotes, the characters of the comment markers, the backslash, the
\* newline and one other character
CommentAlphabet == {"/", "*", "'", "\"", "\\", "\n", "x"}

CommentInputs == BoundedSeq(CommentAlphabet, MaxCommentLen)

CommentInit ==
    /\ file \in CommentInputs
    /\ prev = file
    /\ runs = 0
    /\ thrown = FALSE
    /\ OnlyText
    /\ libSrcRoot = "libs/a/src"
    /\ addPages = "undefined"
    /\ addApi = "undefined"

\* a call of removeComments on the text, and on what it returned
RunRemoveComments ==
    /\ runs < MaxRuns
    /\ prev' = file
    /\ file' = removeComments(file)
    /\ runs' = runs + 1
    /\ UNCHANGED <<libSrcRoot, addPages, addApi, thrown>>
    /\ UNCHANGED others

CommentNext == RunRemoveComments

CommentSpec == CommentInit /\ [][CommentNext]_vars

(***************************************************************************)
(* proxyClient of the tRPC error handling (createProxy), as its tests      *)
(* show it: the proxied client has the shape of the client, query and      *)
(* mutate give the client's observable with its errors routed through      *)
(* the error handler, any other method is the client's own.  The           *)
(* observable of a call gives one value and completes (of(value)) or       *)
(* fails with a TRPCClientError without a value (throwError)               *)
(***************************************************************************)

\* no text takes part
NoText ==
    /\ file = <<>>
    /\ prev = <<>>
    /\ runs = 0
    /\ thrown = FALSE
    /\ libSrcRoot = "libs/a/src"
    /\ addPages = "undefined"
    /\ addApi = "undefined"

texts == <<file, prev, libSrcRoot, addPages, addApi, runs, thrown>>

Methods == {"query", "mutate", "someOtherMethod"}

\* the responses of the mocked client
Values == {"user", "created"}

\* the data of the TRPCClientError the mocked client fails with
ErrorData == {"UNAUTHORIZED", "SESSION_EXPIRED", "undefined"}

Sources ==
    {[kind |-> "value", data |-> v] : v \in Values}
    \cup {[kind |-> "trpcError", data |-> d] : d \in ErrorData}

\* the methods the proxy wraps
Intercepted(method) == method \in {"query", "mutate"}

\* what the subscriber is given after the handler has answered, always the
\* error
OutcomeAlwaysError(handlerResult) == "error"

\* what the subscriber is given after the handler has answered: completion
\* if the handler returned true, the error if it returned false
Outcome(handlerResult) == IF handlerResult THEN "complete" ELSE "error"

ProxyInit ==
    /\ NoText
    /\ tree = EmptyTree
    /\ projectType = "application"
    /\ guard = IdleGuard
    /\ \E m \in Methods, src \in Sources, h \in BOOLEAN :
          proxy = [IdleProxy EXCEPT !.method = m, !.source = src,
                                    !.handlerResult = h]

\* a method of the proxied client is called: the client's method is called;
\* a method that is not wrapped returns what the client's method returns
CallMethod ==
    /\ proxy.pc = "idle"
    /\ proxy' = IF Intercepted(proxy.method)
                THEN [proxy EXCEPT !.pc = "called",
                                   !.originalCalls = @ + 1]
                ELSE [proxy EXCEPT !.pc = "done",
                                   !.originalCalls = @ + 1,
                                   !.result = "original"]
    /\ UNCHANGED <<texts, tree, projectType, guard>>

\* the caller subscribes to the observable the proxy returned
Subscribe ==
    /\ proxy.pc = "called"
    /\ proxy' = [proxy EXCEPT !.pc = "subscribed"]
    /\ UNCHANGED <<texts, tree, projectType, guard>>

\* the client's observable gives its value, which is passed on
SourceNext ==
    /\ proxy.pc = "subscribed"
    /\ proxy.source.kind = "value"
    /\ proxy' = [proxy EXCEPT !.pc = "emitted",
                              !.events = Append(@, "next")]
    /\ UNCHANGED <<texts, tree, projectType, guard>>

\* the client's observable completes, which is passed on
SourceComplete ==
    /\ proxy.pc = "emitted"
    /\ proxy' = [proxy EXCEPT !.pc = "done",
                              !.events = Append(@, "complete")]
    /\ UNCHANGED <<texts, tree, projectType, guard>>

\* the client's observable fails: the error is caught
SourceError ==
    /\ proxy.pc = "subscribed"
    /\ proxy.source.kind = "trpcError"
    /\ proxy' = [proxy EXCEPT !.pc = "failed"]
    /\ UNCHANGED <<texts, tree, projectType, guard>>

\* the error handler is called with the data of the error
CallErrorHandler ==
    /\ proxy.pc = "failed"
    /\ proxy' = [proxy EXCEPT !.pc = "handled",
                              !.handlerCalls = Append(@, proxy.source.data)]
    /\ UNCHANGED <<texts, tree, projectType, guard>>

\* the subscriber is given what the handler's answer decides
Deliver ==
    /\ proxy.pc = "handled"
    /\ proxy' = [proxy EXCEPT !.pc = "done",
                              !.events = Append(@, Outcome(proxy.handlerResult))]
    /\ UNCHANGED <<texts, tree, projectType, guard>>

ProxyNext ==
    \/ CallMethod
    \/ Subscribe
    \/ SourceNext
    \/ SourceComplete
    \/ SourceError
    \/ CallErrorHandler
    \/ Deliver

ProxySpec == ProxyInit /\ [][ProxyNext]_vars

(***************************************************************************)
(* roleGuard (auth.guard), as its tests show it.  The route data names     *)
(* the required roles or none ({}); isAuthenticated and hasRoles of the    *)
(* auth service answer as the test sets them                               *)
(***************************************************************************)

RoleNames == {"admin", "user", "editor"}

Urls == {"/profile", "/admin", "/settings"}

\* roleGuard without the test of isAuthenticated
RoleGuardWithoutAuthentication(g) ==
    IF g.roles = {} THEN [g EXCEPT !.pc = "done", !.result = "true"]
    ELSE IF g.hasRolesResult
    THEN [g EXCEPT !.pc = "done", !.result = "true",
                   !.hasRolesCalls = Append(@, g.roles)]
    ELSE [g EXCEPT !.pc = "done", !.result = "false",
                   !.hasRolesCalls = Append(@, g.roles),
                   !.navigations = Append(@, "/access-denied")]

\* roleGuard(route, state): the guard after the call
RoleGuard(g) ==
    IF g.roles = {} THEN [g EXCEPT !.pc = "done", !.result = "true"]
    ELSE IF ~g.authenticated
    THEN [g EXCEPT !.pc = "done", !.result = "false",
                   !.isAuthenticatedCalls = @ + 1,
                   !.loginCalls = Append(@, g.url)]
    ELSE IF g.hasRolesResult
    THEN [g EXCEPT !.pc = "done", !.result = "true",
                   !.isAuthenticatedCalls = @ + 1,
                   !.hasRolesCalls = Append(@, g.roles)]
    ELSE [g EXCEPT !.pc = "done", !.result = "false",
                   !.isAuthenticatedCalls = @ + 1,
                   !.hasRolesCalls = Append(@, g.roles),
                   !.navigations = Append(@, "/access-denied")]

GuardInit ==
    /\ NoText
    /\ tree = EmptyTree
    /\ projectType = "application"
    /\ proxy = IdleProxy
    /\ \E r \in SUBSET RoleNames, u \in Urls, a \in BOOLEAN, h \in BOOLEAN :
          guard = [IdleGuard EXCEPT !.roles = r, !.url = u,
                                    !.authenticated = a,
                                    !.hasRolesResult = h]

\* the router asks the guard for a route
RunRoleGuard ==
    /\ guard.pc = "idle"
    /\ guard' = RoleGuard(guard)
    /\ UNCHANGED <<texts, tree, projectType, proxy>>

GuardNext == RunRoleGuard

GuardSpec == GuardInit /\ [][GuardNext]_vars

(***************************************************************************)
(* What the properties are stated with: the scanner of the design          *)
(* (every position is code, in a string literal, in a line comment or in   *)
(* a block comment; an escape is two characters of its string; what is     *)
(* not closed runs to the end of the input)                                *)
(***************************************************************************)

\* the scanner at one position: the tag of the position, and the mode and
\* the delimiter the scanner goes on with (escaped, line2, block2 and
\* blockEnd: the position is the second character of an escape, of //, of
\* /* or of */)
TagStep(c, next, mode, delim) ==
    IF mode = "string"
    THEN [tag |-> "string", delim |-> IF c = delim THEN "" ELSE delim,
          mode |-> IF c = "\\" THEN "escaped"
                   ELSE IF c = delim THEN "code" ELSE "string"]
    ELSE IF mode = "escaped"
    THEN [tag |-> "string", delim |-> delim, mode |-> "string"]
    ELSE IF mode \in {"line2", "line"}
    THEN IF mode = "line" /\ c = "\n"
         THEN [tag |-> "code", delim |-> "", mode |-> "code"]
         ELSE [tag |-> "line", delim |-> "", mode |-> "line"]
    ELSE IF mode \in {"block2", "block", "blockEnd"}
    THEN [tag |-> "block", delim |-> "",
          mode |-> IF mode = "blockEnd" THEN "code"
                   ELSE IF mode = "block" /\ c = "*" /\ next = "/"
                   THEN "blockEnd" ELSE "block"]
    ELSE IF IsQuote(c)
    THEN [tag |-> "string", delim |-> c, mode |-> "string"]
    ELSE IF c = "/" /\ next = "/"
    THEN [tag |-> "line", delim |-> "", mode |-> "line2"]
    ELSE IF c = "/" /\ next = "*"
    THEN [tag |-> "block", delim |-> "", mode |-> "block2"]
    ELSE [tag |-> "code", delim |-> "", mode |-> "code"]

\* the tag of every position of a text
Tags(s) ==
    LET Step(st, i) ==
            LET t == TagStep(At(s, i), At(s, i + 1), st.mode, st.delim)
            IN  [tags |-> Append(st.tags, t.tag), mode |-> t.mode,
                 delim |-> t.delim]
    IN  FoldRange(Step, [tags |-> <<>>, mode |-> "code", delim |-> ""],
                  0, Len(s)).tags

TagAt(tags, i) == IF i >= 0 /\ i < Len(tags) THEN tags[i + 1] ELSE "none"

\* the text contains analog, optional whitespace and an opening parenthesis
ContainsAnalogCall(s) ==
    \E i \in 1..Len(s) : \E j \in (i + 1)..Len(s) :
        /\ s[i] = "analog"
        /\ s[j] = "("
        /\ \A k \in (i + 1)..(j - 1) : IsSpace(s[k])

\* the values the scan holds when it comes to position i (depth 0: it has
\* ended before)
ScanStateAt(content, startPos, i) ==
    ScanLoop(Substring(content, 0, i), startPos, 1, startPos, FALSE, "")

\* the scan of the last run: where it started and what it ended with
LastMatch == analogCallRegex(prev)
LastScan == FindClosingParenthesis(prev, LastMatch.end)

\* a run has been made on a text in which the scan found the call's end
Patched == runs >= 1 /\ LastMatch.found /\ LastScan.depth = 0

(***************************************************************************)
(* The claims                                                              *)
(***************************************************************************)

\* C1: running the generator a second time with the same library root and
\* options leaves the file as the first run wrote it.
C1_Idempotent == runs = 2 => file = prev

\* the quoted literal stands in the first array of the key
ArrayHolds(text, key, literal) ==
    \E i \in 0..(Len(text) - 1) :
        /\ At(text, i) = key
        /\ At(text, SkipSpaces(text, i + 1)) = ":"
        /\ LET j == SkipSpaces(text, SkipSpaces(text, i + 1) + 1)
           IN  /\ At(text, j) = "["
               /\ \E k \in (j + 1)..(Len(text) - 3) :
                      /\ Substring(text, k, k + 3) = literal
                      /\ \A m \in (j + 1)..k : At(text, m) # "]"

\* the argument of the call the last run patched
LastArgument == Trim(Substring(prev, LastMatch.end, LastScan.endPos))

\* the last run was asked for nothing the argument did not already hold
AlreadySatisfied ==
    /\ Patched
    /\ HasKey(LastArgument, "liveReload")
    /\ shouldAdd(addPages) \/ shouldAdd(addApi)
    /\ shouldAdd(addPages) =>
           ArrayHolds(LastArgument, "additionalPagesDirs",
                      pagesDirFormatted(libSrcRoot))
    /\ shouldAdd(addApi) =>
           ArrayHolds(LastArgument, "additionalAPIDirs",
                      apiDirFormatted(libSrcRoot))

\* C2: a run on a text whose analog argument already has liveReload and
\* already lists every requested directory returns the text unchanged.
C2_NoOpWhenSatisfied == AlreadySatisfied => file = prev

\* C6: a run on a text without analog( returns the text as it was, whatever
\* the library root and the options.
C6_NotFoundUnchanged ==
    (runs >= 1 /\ ~ContainsAnalogCall(prev)) => file = prev

\* a run was made on a text that names analog but never calls it
C6_Witness ==
    /\ runs = 1
    /\ ~ContainsAnalogCall(prev)
    /\ \E i \in 1..Len(prev) : prev[i] = "analog"
    /\ file = prev

\* C7: a run on a text in which the depth of the scan after analog( never
\* comes back to 0 returns the text as it was.
C7_UnbalancedUnchanged ==
    (runs >= 1 /\ ContainsAnalogCall(prev) /\ LastScan.depth # 0)
        => file = prev

\* a run was made on a text whose argument ends in a string literal that is
\* never closed, with a closing parenthesis inside it
C7_Witness ==
    /\ runs = 1
    /\ ContainsAnalogCall(prev)
    /\ LastScan.depth # 0
    /\ LastScan.inString
    /\ TagAt(Tags(prev), Len(prev) - 1) = "string"
    /\ \E i \in (LastMatch.end + 1)..Len(prev) : prev[i] = ")"
    /\ file = prev

\* the index of the first analog( that lies in code, -1 if there is none
CodeMarkerIndex(s) ==
    LET tags == Tags(s)
        hits == {i \in 0..(Len(s) - 1) :
                    /\ AnalogMatchesAt(s, i)
                    /\ \A k \in i..SkipSpaces(s, i + 1) : TagAt(tags, k) = "code"}
    IN  IF hits = {} THEN -1
        ELSE CHOOSE h \in hits : \A g \in hits : h <= g

\* a run has been made on a text whose first analog( lies in code
FoundInCode ==
    runs >= 1 /\ LastMatch.found /\ LastMatch.index = CodeMarkerIndex(prev)

\* the positions the scan of the last run came to
Scanned(i) ==
    /\ i >= LastMatch.end
    /\ i < Len(prev)
    /\ ScanStateAt(prev, LastMatch.end, i).depth > 0

\* C3: in the scan for the parenthesis closing analog(, a parenthesis that
\* lies inside a string literal leaves the depth as it is.
C3_StringParenthesisNotCounted ==
    FoundInCode =>
        LET tags == Tags(prev)
        IN  \A i \in LastMatch.end..(Len(prev) - 1) :
                (/\ At(prev, i) \in {"(", ")"}
                 /\ TagAt(tags, i) = "string"
                 /\ Scanned(i))
                => ScanStateAt(prev, LastMatch.end, i + 1).depth
                     = ScanStateAt(prev, LastMatch.end, i).depth

\* C4: in the scan for the parenthesis closing analog(, a character inside a
\* comment changes neither the depth nor whether the scan is in a string.
C4_CommentNotCounted ==
    FoundInCode =>
        LET tags == Tags(prev)
        IN  \A i \in LastMatch.end..(Len(prev) - 1) :
                (TagAt(tags, i) \in {"line", "block"} /\ Scanned(i))
                => LET before == ScanStateAt(prev, LastMatch.end, i)
                       after == ScanStateAt(prev, LastMatch.end, i + 1)
                   IN  /\ after.depth = before.depth
                       /\ after.inString = before.inString

\* the index of the delimiter closing the string literal opened at index j:
\* the first one that is not the second character of an escape (the length
\* of the text if there is none)
RECURSIVE StringEnd(_, _, _)
StringEnd(s, delim, k) ==
    IF k >= Len(s) THEN Len(s)
    ELSE IF At(s, k) = "\\" THEN StringEnd(s, delim, k + 2)
    ELSE IF At(s, k) = delim THEN k
    ELSE StringEnd(s, delim, k + 1)

\* removeComments leaves a string literal opened at j at its closing delimiter
EscapesAtomicInRemoveComments(s) ==
    \A j \in 0..(Len(s) - 1) :
        IsQuote(At(s, j)) =>
            LET e == StringEnd(s, At(s, j), j + 1)
                r == ReadString(s, j + 1, <<>>, At(s, j))
            IN  IF e < Len(s) THEN r.i = e + 1 ELSE r.i >= Len(s)

\* the scan leaves a string literal it entered at j at its closing delimiter
EscapesAtomicInScan(s, startPos) ==
    \A j \in startPos..(Len(s) - 1) :
        LET before == ScanStateAt(s, startPos, j)
            e == StringEnd(s, At(s, j), j + 1)
        IN  (/\ before.depth > 0
             /\ ~before.inString
             /\ ScanStateAt(s, startPos, j + 1).inString
             /\ e < Len(s))
            => /\ \A k \in (j + 1)..e :
                      ScanStateAt(s, startPos, k).inString
               /\ ~ScanStateAt(s, startPos, e + 1).inString

\* C5: in removeComments and in the parenthesis scan, a string literal ends
\* at the first delimiter that is not the second character of an escape.
C5_EscapesAtomic ==
    FoundInCode =>
        /\ EscapesAtomicInRemoveComments(prev)
        /\ EscapesAtomicInScan(prev, LastMatch.end)

\* C8: the call the run patches is the first analog( that lies in code; if
\* there is none in code the text is returned as it was.
C8_MarkerInCodeOnly ==
    runs >= 1 =>
        IF CodeMarkerIndex(prev) = -1 THEN file = prev
        ELSE LastMatch.index = CodeMarkerIndex(prev)

\* the index of the parenthesis in code that closes the one before index i,
\* -1 if there is none
RECURSIVE CodeClose(_, _, _, _)
CodeClose(s, tags, i, depth) ==
    IF i >= Len(s) THEN -1
    ELSE IF TagAt(tags, i) # "code" THEN CodeClose(s, tags, i + 1, depth)
    ELSE IF At(s, i) = "(" THEN CodeClose(s, tags, i + 1, depth + 1)
    ELSE IF At(s, i) = ")"
         THEN IF depth = 1 THEN i ELSE CodeClose(s, tags, i + 1, depth - 1)
    ELSE CodeClose(s, tags, i + 1, depth)

\* the call of the text: [found, start, end], from after the opening
\* parenthesis of the first analog( in code to its closing parenthesis
CodeCall(s) ==
    LET m == CodeMarkerIndex(s)
        start == SkipSpaces(s, m + 1) + 1
        close == CodeClose(s, Tags(s), start, 1)
    IN  IF m = -1 \/ close = -1
        THEN [found |-> FALSE, start |-> -1, end |-> -1]
        ELSE [found |-> TRUE, start |-> start, end |-> close]

\* the argument is empty, is {} or holds only whitespace and comments
EmptyArgument(s, call) ==
    LET tags == Tags(s)
    IN  \/ \A k \in call.start..(call.end - 1) :
               IsSpace(At(s, k)) \/ TagAt(tags, k) \in {"line", "block"}
        \/ Trim(Substring(s, call.start, call.end)) = <<"{", "}">>

\* C9: a call whose argument is empty, {} or only whitespace and comments
\* gets one object with liveReload, then the pages directory if asked for,
\* then the API directory if asked for.
C9_EmptyCallPopulated ==
    LET call == CodeCall(prev)
    IN  (/\ FoundInCode
         /\ call.found
         /\ EmptyArgument(prev, call))
        => file = Substring(prev, 0, call.start)
                  \o FreshOptions(libSrcRoot, addPages, addApi)
                  \o Substring(prev, call.end, Len(prev))

\* the first array of a key in a text: [found, open, close], the indices of
\* its brackets
KeyArray(text, key) ==
    LET hits == {i \in 0..(Len(text) - 1) :
                    /\ At(text, i) = key
                    /\ At(text, SkipSpaces(text, i + 1)) = ":"
                    /\ LET j == SkipSpaces(text, SkipSpaces(text, i + 1) + 1)
                       IN  /\ At(text, j) = "["
                           /\ \E k \in (j + 1)..(Len(text) - 1) :
                                  At(text, k) = "]"}
    IN  IF hits = {} THEN [found |-> FALSE, open |-> -1, close |-> -1]
        ELSE LET i == CHOOSE h \in hits : \A g \in hits : h <= g
                 j == SkipSpaces(text, SkipSpaces(text, i + 1) + 1)
                 closers == {k \in (j + 1)..(Len(text) - 1) : At(text, k) = "]"}
             IN  [found |-> TRUE, open |-> j,
                  close |-> CHOOSE c \in closers : \A g \in closers : c <= g]

\* the pieces of a text between its commas
RECURSIVE SplitAtCommas(_, _)
SplitAtCommas(s, piece) ==
    IF s = <<>> THEN <<piece>>
    ELSE IF Head(s) = "," THEN <<piece>> \o SplitAtCommas(Tail(s), <<>>)
    ELSE SplitAtCommas(Tail(s), Append(piece, Head(s)))

\* the elements of an array literal with the given contents (a comma after
\* the last element adds none)
Elements(contents) ==
    LET pieces == SplitAtCommas(contents, <<>>)
        trimmed == [k \in 1..Len(pieces) |-> Trim(pieces[k])]
    IN  IF trimmed[Len(trimmed)] = <<>>
        THEN SubSeq(trimmed, 1, Len(trimmed) - 1)
        ELSE trimmed

\* the elements of the first array of a key in a text
ArrayElements(text, key) ==
    LET a == KeyArray(text, key)
    IN  Elements(Substring(text, a.open + 1, a.close))

Occurrences(text, key) == Cardinality({i \in 1..Len(text) : text[i] = key})

\* the key's array of the patched call gets the literal as its last element
AppendedTo(key, literal) ==
    (/\ Occurrences(prev, key) = 1
     /\ KeyArray(LastArgument, key).found
     /\ \A k \in 1..Len(ArrayElements(prev, key)) :
            ArrayElements(prev, key)[k] # literal)
    => /\ KeyArray(file, key).found
       /\ ArrayElements(file, key) = Append(ArrayElements(prev, key), literal)

\* the key's array is left as it was
ArrayUnchanged(key) ==
    (Occurrences(prev, key) = 1 /\ KeyArray(LastArgument, key).found)
    => /\ KeyArray(file, key).found
       /\ ArrayElements(file, key) = ArrayElements(prev, key)

\* C10: an array of the argument that does not hold the requested literal
\* keeps its elements in their order and gets the literal as last element;
\* an array that nothing is requested for is not changed.
C10_ArrayAppend ==
    (/\ FoundInCode
     /\ CodeCall(prev).found
     /\ LastScan.depth = 0
     /\ CodeCall(prev).end = LastScan.endPos)
    => /\ IF shouldAdd(addPages)
          THEN AppendedTo("additionalPagesDirs", pagesDirFormatted(libSrcRoot))
          ELSE ArrayUnchanged("additionalPagesDirs")
       /\ IF shouldAdd(addApi)
          THEN AppendedTo("additionalAPIDirs", apiDirFormatted(libSrcRoot))
          ELSE ArrayUnchanged("additionalAPIDirs")

\* a run has been made on a text whose call the scan found as the text has
\* it: its first analog( in code, and the parenthesis that closes it
PatchedInCode ==
    /\ FoundInCode
    /\ CodeCall(prev).found
    /\ LastScan.depth = 0
    /\ CodeCall(prev).end = LastScan.endPos

\* the argument of the call as the last run left it
NewArgument ==
    Trim(Substring(file, LastMatch.end,
                   Len(file) - (Len(prev) - LastScan.endPos)))

\* the elements of a text that are code and not whitespace, in their order
CodeTokens(s) ==
    LET tags == Tags(s)
        Step(tokens, i) ==
            IF TagAt(tags, i) \in {"line", "block"} \/ IsSpace(At(s, i))
            THEN tokens
            ELSE Append(tokens, At(s, i))
    IN  FoldRange(Step, <<>>, 0, Len(s))

\* the text is { ... } with something other than whitespace and comments
\* between the braces
NonEmptyObject(arg) ==
    /\ StartsWith(arg, "{")
    /\ EndsWith(arg, "}")
    /\ Len(CodeTokens(arg)) > 2

\* the text is one object literal: its first brace is closed by its last
\* (depth: the braces in code that are open; close: the index at which the
\* depth first came to 0)
SingleObject(text) ==
    LET tags == Tags(text)
        Step(st, i) ==
            IF st.close # -1 \/ TagAt(tags, i) # "code" THEN st
            ELSE IF At(text, i) = "{"
            THEN [depth |-> st.depth + 1, close |-> -1]
            ELSE IF At(text, i) = "}"
            THEN [depth |-> st.depth - 1,
                  close |-> IF st.depth = 1 THEN i ELSE -1]
            ELSE st
    IN  /\ StartsWith(text, "{")
        /\ FoldRange(Step, [depth |-> 1, close |-> -1], 1, Len(text)).close
             = Len(text) - 1

\* a is b with elements left out (matched: the elements of a found so far)
IsSubsequence(a, b) ==
    LET Step(matched, i) ==
            IF matched < Len(a) /\ At(a, matched) = At(b, i)
            THEN matched + 1 ELSE matched
    IN  FoldRange(Step, 0, 0, Len(b)) = Len(a)

\* the commas in code between index i and the last element before it that
\* is neither whitespace, nor in a comment, nor a comma
RECURSIVE CodeCommasBefore(_, _, _)
CodeCommasBefore(s, tags, i) ==
    IF i <= 0 THEN 0
    ELSE IF TagAt(tags, i - 1) \in {"line", "block"} \/ IsSpace(At(s, i - 1))
    THEN CodeCommasBefore(s, tags, i - 1)
    ELSE IF At(s, i - 1) = "," THEN 1 + CodeCommasBefore(s, tags, i - 1)
    ELSE 0

\* a key the argument does not have is added to it: one object as before,
\* with what it held, the key once with the literal as its only element,
\* and one comma before the key
AbsentKeyAdded(key, literal) ==
    LET new == NewArgument
    IN  Occurrences(LastArgument, key) = 0
        => /\ SingleObject(new)
           /\ IsSubsequence(CodeTokens(StripBraces(LastArgument)),
                            CodeTokens(StripBraces(new)))
           /\ Occurrences(new, key) = 1
           /\ KeyArray(new, key).found
           /\ ArrayElements(new, key) = <<literal>>
           /\ \A i \in 0..(Len(new) - 1) :
                  At(new, i) = key
                  => CodeCommasBefore(new, Tags(new), i) = 1

\* C11: a non-empty object argument without a requested array key comes
\* back as one object literal that keeps what it held and has the key with
\* a one-element array, one comma between the last property and the key.
C11_AbsentArrayKeyAdded ==
    (PatchedInCode /\ NonEmptyObject(LastArgument))
    => /\ shouldAdd(addPages)
          => AbsentKeyAdded("additionalPagesDirs",
                            pagesDirFormatted(libSrcRoot))
       /\ shouldAdd(addApi)
          => AbsentKeyAdded("additionalAPIDirs", apiDirFormatted(libSrcRoot))

\* the text has the property key: value
HasProperty(text, key, value) ==
    \E i \in 0..(Len(text) - 1) :
        /\ At(text, i) = key
        /\ At(text, SkipSpaces(text, i + 1)) = ":"
        /\ At(text, SkipSpaces(text, SkipSpaces(text, i + 1) + 1)) = value

\* C12: a non-empty argument without a liveReload key has liveReload: true
\* after the run, whatever the options and whatever arrays it holds.
C12_LiveReloadEnsured ==
    (/\ PatchedInCode
     /\ ~EmptyArgument(prev, CodeCall(prev))
     /\ Occurrences(LastArgument, "liveReload") = 0)
    => HasProperty(NewArgument, "liveReload", "true")

\* the value of the first property key: of a text
KeyValue(text, key) ==
    LET hits == {i \in 0..(Len(text) - 1) :
                    At(text, i) = key /\ At(text, SkipSpaces(text, i + 1)) = ":"}
        i == CHOOSE h \in hits : \A g \in hits : h <= g
    IN  At(text, SkipSpaces(text, SkipSpaces(text, i + 1) + 1))

\* the last run patched an argument with one liveReload property
HadLiveReload ==
    /\ Patched
    /\ ~isEmpty(LastArgument)
    /\ Occurrences(LastArgument, "liveReload") = 1
    /\ HasKey(LastArgument, "liveReload")

\* C13: an argument that has a liveReload property keeps it with its value,
\* and has the key liveReload once after the run.
C13_ExistingKeyKept ==
    HadLiveReload
    => /\ Occurrences(NewArgument, "liveReload") = 1
       /\ HasKey(NewArgument, "liveReload")
       /\ KeyValue(NewArgument, "liveReload")
            = KeyValue(LastArgument, "liveReload")

\* a run with both arrays asked for has rewritten an argument whose
\* liveReload was false
C13_Witness ==
    /\ HadLiveReload
    /\ KeyValue(LastArgument, "liveReload") = "false"
    /\ shouldAdd(addPages)
    /\ shouldAdd(addApi)
    /\ file # prev
    /\ KeyValue(NewArgument, "liveReload") = "false"

\* a key the run appended to the argument has one comma in code before it
OneCommaBeforeAppended(key) ==
    (Occurrences(LastArgument, key) = 0 /\ Occurrences(NewArgument, key) = 1)
    => \A i \in 0..(Len(NewArgument) - 1) :
           At(NewArgument, i) = key
           => CodeCommasBefore(NewArgument, Tags(NewArgument), i) = 1

\* C14: a key appended to a non-empty argument object is separated from the
\* last property before it by exactly one comma that lies in code, also
\* when a comment follows that property.
C14_CommaPastComments ==
    (PatchedInCode /\ NonEmptyObject(LastArgument))
    => /\ OneCommaBeforeAppended("liveReload")
       /\ OneCommaBeforeAppended("additionalPagesDirs")
       /\ OneCommaBeforeAppended("additionalAPIDirs")

\* C15: after a run that found the call and its closing parenthesis, the
\* text starts with the old text up to and with the opening parenthesis and
\* ends with the old text from the closing parenthesis on.
C15_PatchFrame ==
    Patched
    => /\ Len(file) >= LastMatch.end + (Len(prev) - LastScan.endPos)
       /\ Substring(file, 0, LastMatch.end)
            = Substring(prev, 0, LastMatch.end)
       /\ Substring(file, Len(file) - (Len(prev) - LastScan.endPos),
                    Len(file))
            = Substring(prev, LastScan.endPos, Len(prev))

\* a run has rewritten the argument of a call that has text before it and
\* text after its closing parenthesis
C15_Witness ==
    /\ Patched
    /\ runs = 1
    /\ LastMatch.index > 0
    /\ LastScan.endPos < Len(prev) - 1
    /\ At(prev, LastScan.endPos) = ")"
    /\ file # prev
    /\ Substring(file, 0, LastMatch.end) = Substring(prev, 0, LastMatch.end)
    /\ Substring(file, Len(file) - (Len(prev) - LastScan.endPos), Len(file))
         = Substring(prev, LastScan.endPos, Len(prev))

\* a finite sequence of characters
IsText(s) ==
    /\ DOMAIN s = 1..Len(s)
    /\ \A k \in 1..Len(s) : s[k] \in STRING

AuthAdded == runs >= 1 /\ ~Includes(prev, AuthModule)

\* where the import statement that starts at index i ends: behind the
\* newline after its semicolon (-1 if none starts there)
StatementEnd(s, i) ==
    LET semicolon == First({k \in (i + 1)..(Len(s) - 1) : At(s, k) = ";"})
    IN  IF At(s, i) = "import" /\ semicolon # -1
           /\ At(s, semicolon + 1) = "\n"
        THEN semicolon + 2
        ELSE -1

\* where the run of import statements that starts at index i ends
RECURSIVE StatementsEnd(_, _)
StatementsEnd(s, i) ==
    IF StatementEnd(s, i) = -1 THEN i
    ELSE StatementsEnd(s, StatementEnd(s, i))

\* C16: on a text without the auth module that starts with a run of import
\* statements, the auth import is put directly behind the last line of the
\* run, and the run stands before it as it was.
C16_ImportAfterImports ==
    LET end == StatementsEnd(prev, 0)
    IN  (AuthAdded /\ end > 0)
        => /\ Substring(file, 0, end) = Substring(prev, 0, end)
           /\ Substring(file, end, end + Len(authImport)) = authImport

\* C17: on a text without any import, the auth import is put at position 0,
\* so that a text that got provideAuthClient() or authInterceptor also
\* imports them.
C17_ImportAtStart ==
    (AuthAdded /\ ~Includes(prev, "import"))
    => /\ Substring(file, 0, Len(authImport)) = authImport
       /\ (Includes(file, "provideAuthClient")
             \/ Includes(file, "authInterceptor"))
          => Includes(file, AuthModule)

\* the text without its whitespace
NonSpace(s) ==
    LET Step(kept, i) ==
            IF IsSpace(At(s, i)) THEN kept ELSE Append(kept, At(s, i))
    IN  FoldRange(Step, <<>>, 0, Len(s))

\* C18: providers with provideHttpClient(withFetch()) in a text that does
\* not name withInterceptors get withInterceptors([authInterceptor]) as the
\* argument of provideHttpClient after withFetch().
C18_WrapperSynthesized ==
    (/\ AuthAdded
     /\ providersRegex(prev).found
     /\ IncludesText(prev, <<"provideHttpClient", "(", "withFetch", "(", ")",
                             ")">>)
     /\ ~Includes(prev, "withInterceptors"))
    => IncludesText(NonSpace(file),
                    <<"provideHttpClient", "(", "withFetch", "(", ")", ",",
                      "withInterceptors", "(", "[", "authInterceptor", "]",
                      ")", ")">>)

\* the first withInterceptors([ ... ]) of a text: [found, open, close], the
\* indices of its brackets
InterceptorList(s) ==
    LET index == First({i \in 0..(Len(s) - 1) :
                           /\ At(s, i) = "withInterceptors"
                           /\ At(s, i + 1) = "("
                           /\ At(s, i + 2) = "["})
        close == First({k \in (index + 3)..(Len(s) - 1) : At(s, k) = "]"})
    IN  IF index = -1 \/ close = -1
        THEN [found |-> FALSE, open |-> -1, close |-> -1]
        ELSE [found |-> TRUE, open |-> index + 2, close |-> close]

\* the interceptors of the first withInterceptors([ ... ]) of a text
Interceptors(s) ==
    Elements(Substring(s, InterceptorList(s).open + 1,
                       InterceptorList(s).close))

\* C19: a withInterceptors([...]) in the providers keeps its list if the
\* list names authInterceptor, and else gets authInterceptor as its last
\* element behind the interceptors it had; authInterceptor is in it once.
C19_WrapperExtended ==
    (/\ AuthAdded
     /\ providersRegex(prev).found
     /\ InterceptorList(prev).found)
    => /\ InterceptorList(file).found
       /\ Interceptors(file)
            = IF \E k \in 1..Len(Interceptors(prev)) :
                     Interceptors(prev)[k] = <<"authInterceptor">>
              THEN Interceptors(prev)
              ELSE Append(Interceptors(prev), <<"authInterceptor">>)
       /\ Cardinality({k \in 1..Len(Interceptors(file)) :
                          Interceptors(file)[k] = <<"authInterceptor">>}) = 1

(***************************************************************************)
(* The claim on removeComments, under CommentSpec                          *)
(***************************************************************************)

\* the text without the positions the scanner of the design tags as
\* comment; the newline that ends a line comment is tagged as code
Elided(s) ==
    LET tags == Tags(s)
        Step(kept, i) ==
            IF TagAt(tags, i) \in {"code", "string"}
            THEN Append(kept, At(s, i)) ELSE kept
    IN  FoldRange(Step, <<>>, 0, Len(s))

\* C21: removeComments returns its input without the characters of the
\* line and block comments and with every other character, those of string
\* literals included, unchanged and in order; what is not closed runs to
\* the end of the input, and nothing is emitted that the input does not hold.
C21_CommentElisionExact ==
    runs >= 1 => file = Elided(prev)

(***************************************************************************)
(* The claim on proxyClient, under ProxySpec                               *)
(***************************************************************************)

\* a query or mutate call whose observable fails with a TRPCClientError
FailingCall ==
    /\ Intercepted(proxy.method)
    /\ proxy.source.kind = "trpcError"
    /\ proxy.pc # "idle"

\* C22: when the observable of a proxied query or mutate call fails with a
\* TRPC client error, the error handler has been called with the error's
\* data before the subscriber is given anything; the subscriber is given
\* completion alone if the handler returned true and the error alone if it
\* returned false, and never a value.
C22_ErrorRouting ==
    FailingCall =>
        /\ proxy.events # <<>> => proxy.handlerCalls = <<proxy.source.data>>
        /\ proxy.pc = "done" =>
              proxy.events = IF proxy.handlerResult THEN <<"complete">>
                             ELSE <<"error">>
        /\ \A k \in 1..Len(proxy.events) : proxy.events[k] # "next"

\* a failing query was answered with true and its subscriber saw completion
C22_Witness ==
    /\ FailingCall
    /\ proxy.method = "query"
    /\ proxy.handlerResult
    /\ proxy.pc = "done"
    /\ proxy.events = <<"complete">>
    /\ proxy.handlerCalls = <<proxy.source.data>>

(***************************************************************************)
(* The claim on roleGuard, under GuardSpec                                 *)
(***************************************************************************)

\* C23: roleGuard returns true for a route that names no required roles,
\* without asking whether the user is authenticated; for a route that names
\* roles it returns false and calls login with the requested URL if the user
\* is not authenticated; otherwise it returns what hasRoles of the required
\* roles returns, and on false it navigates to /access-denied and does not
\* call login.
C23_RoleGuardDecision ==
    guard.pc = "done" =>
        /\ guard.roles = {} =>
              /\ guard.result = "true"
              /\ guard.isAuthenticatedCalls = 0
              /\ guard.loginCalls = <<>>
              /\ guard.navigations = <<>>
        /\ (guard.roles # {} /\ ~guard.authenticated) =>
              /\ guard.result = "false"
              /\ guard.loginCalls = <<guard.url>>
        /\ (guard.roles # {} /\ guard.authenticated) =>
              /\ guard.hasRolesCalls = <<guard.roles>>
              /\ guard.result = "true" <=> guard.hasRolesResult
              /\ ~guard.hasRolesResult =>
                    /\ guard.result = "false"
                    /\ guard.navigations = <<"/access-denied">>
                    /\ guard.loginCalls = <<>>

\* an authenticated user without the required role was sent to /access-denied
C23_Witness ==
    /\ guard.pc = "done"
    /\ guard.roles = {"admin"}
    /\ guard.authenticated
    /\ ~guard.hasRolesResult
    /\ guard.result = "false"
    /\ guard.navigations = <<"/access-denied">>

(***************************************************************************)
(* The claim on updateViteConfig of init-auth, under NoExternalSpec        *)
(***************************************************************************)

\* the entries of the noExternal array the update finds in a text, as the
\* scanner of the design reads the array: from its [ to the first ] in
\* code, split at the commas in code, without comments and surrounding
\* whitespace; <<"none">> if the array does not end in code
ListedEntries(text) ==
    LET match == noExternalRegex(text)
        tags == Tags(text)
        close == First({c \in (match.open + 1)..(Len(text) - 1) :
                           At(text, c) = "]" /\ TagAt(tags, c) = "code"})
        Step(st, k) ==
            IF TagAt(tags, k) \notin {"code", "string"} THEN st
            ELSE IF At(text, k) = "," /\ TagAt(tags, k) = "code"
            THEN [items |-> Append(st.items, st.item), item |-> <<>>]
            ELSE [items |-> st.items, item |-> Append(st.item, At(text, k))]
        end == FoldRange(Step, [items |-> <<>>, item |-> <<>>],
                         match.open + 1, close)
    IN  IF close < 0 THEN <<"none">>
        ELSE TrimmedItems(Append(end.items, end.item))

\* the array lists the package in single or in double quotes
ListsAuth(text) ==
    \E k \in 1..Len(ListedEntries(text)) :
        ListedEntries(text)[k] \in {AuthLiteral, AuthLiteralDoubleQuotes}

\* C24: a run of init-auth's updateViteConfig on a text with an
\* ssr: { noExternal: [...] } array that lists '@analog-tools/auth', in
\* single or in double quotes, writes nothing; on one that does not (an
\* entry that only starts with the name does not count) it leaves the array
\* with its entries in their order followed by '@analog-tools/auth', listed
\* once.
C24_NoExternalEnsured ==
    [][noExternalRegex(file).found =>
          IF ListsAuth(file)
          THEN UNCHANGED <<file, tree>>
          ELSE /\ noExternalRegex(file').found
               /\ ListedEntries(file') = Append(ListedEntries(file), AuthLiteral)]_vars

(***************************************************************************)
(* The claims on re-runs and on the providers array, under AppSpec         *)
(***************************************************************************)

\* C25: a run of updateAppConfig on a text that holds
\* '@analog-tools/auth/angular' writes nothing, so the runs that follow a
\* run that inserted the import leave app.config.ts as it is.
C25_RerunLeavesAppConfig ==
    [][Includes(file, AuthModule) => UNCHANGED <<file, tree>>]_vars

\* the first run inserted the import and wrote the file, the second run
\* wrote nothing
C25_Witness ==
    /\ runs = 2
    /\ Includes(prev, AuthModule)
    /\ Includes(file, "provideAuthClient")
    /\ file = prev
    /\ tree.changes = <<"src/app/app.config.ts">>

\* the entries of the providers array of a text, as a parser reads the
\* array: from the [ behind the first providers: to the ] that closes it,
\* split at the commas that are not inside parentheses, brackets or braces,
\* without surrounding whitespace; <<"none">> if there is no such array
ProviderEntries(s) ==
    LET index == First({i \in 0..(Len(s) - 1) : ProvidersOpenAt(s, i)})
        open == SkipSpaces(s, index + 2)
        Step(st, k) ==
            IF st.closed THEN st
            ELSE IF At(s, k) \in {"(", "[", "{"}
            THEN [st EXCEPT !.depth = @ + 1, !.item = Append(@, At(s, k))]
            ELSE IF At(s, k) = "]" /\ st.depth = 0
            THEN [st EXCEPT !.closed = TRUE]
            ELSE IF At(s, k) \in {")", "]", "}"}
            THEN [st EXCEPT !.depth = @ - 1, !.item = Append(@, At(s, k))]
            ELSE IF At(s, k) = "," /\ st.depth = 0
            THEN [st EXCEPT !.items = Append(@, st.item), !.item = <<>>]
            ELSE [st EXCEPT !.item = Append(@, At(s, k))]
        end == FoldRange(Step, [depth |-> 0, closed |-> FALSE,
                                items |-> <<>>, item |-> <<>>],
                         open + 1, Len(s))
    IN  IF index = -1 \/ ~end.closed THEN <<"none">>
        ELSE TrimmedItems(Append(end.items, end.item))

AuthClientCall == <<"provideAuthClient", "(", ")">>

\* the last run was made on a text without the auth module whose providers
\* array does not name provideAuthClient
ProvidersWithoutAuthClient ==
    /\ AuthAdded
    /\ providersRegex(prev).found
    /\ ProviderEntries(prev) # <<"none">>
    /\ \A k \in 1..Len(ProviderEntries(prev)) :
           ~Includes(ProviderEntries(prev)[k], "provideAuthClient")

\* the text holds provideAuthClient() once, as an entry of the providers
\* array
AuthClientOnceInProviders ==
    /\ Cardinality({i \in 0..(Len(file) - 1) :
                       Substring(file, i, i + 3) = AuthClientCall}) = 1
    /\ Cardinality({k \in 1..Len(ProviderEntries(file)) :
                       ProviderEntries(file)[k] = AuthClientCall}) = 1

\* the entries of the array without provideAuthClient()
OtherEntries(s) ==
    SelectSeq(ProviderEntries(s), LAMBDA entry : entry # AuthClientCall)

C27_RejectsNonApplications ==
    [][projectType # "application"
          => thrown' /\ UNCHANGED <<file, tree>>]_vars

\* the generator threw for a project without a projectType that lacks the
\* required packages and has an app.config.ts without the auth import, and
\* wrote nothing
C27_Witness ==
    /\ runs = 1
    /\ thrown
    /\ projectType = "undefined"
    /\ {"package.json", "src/app/app.config.ts"} \subseteq tree.exists
    /\ tree.packages.name = "app"
    /\ tree.packages.dependencies = {}
    /\ ~Includes(file, AuthModule)
    /\ tree.changes = <<>>
    /\ "src/auth.config.ts" \notin tree.exists

=============================================================================
